---- MODULE Spec2Model ----
(***************************************************************************)
(* A model of the character simulation core of vigilante:                  *)
(*   Source/character/Character.cc  (combat, state machine, inventory)     *)
(*   src/map/GameMapManager.cc      (map manager)                          *)
(* Every operator that models code keeps the name of the method it models. *)
(* Pointers are modelled as identifiers, nullptr as NULL.  Floating point  *)
(* seconds are counted in ticks of 0.05 s, velocities in thousandths.      *)
(***************************************************************************)
EXTENDS Integers, Sequences, FiniteSets, Bags, TLC

NULL == "null"

(***************************************************************************)
(* Bounds of the model.                                                    *)
(***************************************************************************)
\* largest amount one external addItem call passes
MaxAddAmount == 3
\* external addItem calls are explored while the owned quantity stays <= this
MaxAmount == 5

(***************************************************************************)
(* Items.  An item object is a heap instance of an item definition (its    *)
(* jsonFileName); two instances of the same definition are different       *)
(* objects.                                                                *)
(***************************************************************************)
Items == {"potion", "sword", "dagger"}
Serials == {1, 2}
ItemObjs == [json : Items, ser : Serials]
ItemTypes == {"EQUIPMENT", "CONSUMABLE"}
EquipTypes == {"WEAPON"}

\* Item::Profile::itemType of an instance
ItemType(item) == IF item.json = "potion" THEN "CONSUMABLE" ELSE "EQUIPMENT"
\* dynamic_cast<Equipment*>(item) != nullptr
IsEquipment(item) == ItemType(item) = "EQUIPMENT"
\* Equipment::Profile::equipmentType (both weapons share the WEAPON slot)
EquipmentType(item) == "WEAPON"
\* the null Item pointer
NoItem == [json |-> "none", ser |-> 0]

(***************************************************************************)
(* Characters.  CharIds are the Character objects that can exist; `chars`  *)
(* holds the ones constructed (the domain of chr and inv).  A party has a leader and a set of members  *)
(* (the leader is not one of its members).                                 *)
(***************************************************************************)
CharIds == {"c1", "c2", "c3"}
PartyIds == {"p1", "p2"}

VARIABLES
  chars,   \* the characters constructed
  parties, \* party id -> [leader, members]
  chr,     \* character -> its fields (flags, profile, targets, state)
  inv,     \* character -> its inventory / equipment state
  pending, \* CallbackManager: the bag of scheduled callbacks not yet run
  call,    \* the last operation called: its name, arguments and result
  gmm      \* GameMapManager: its fields, the map-loading worker thread, the shade

vars == <<chars, parties, chr, inv, pending, call, gmm>>

Call(op, self, args, ret) == [op |-> op, self |-> self, args |-> args, ret |-> ret]

(***************************************************************************)
(* Inventory / equipment subsystem.  An inventory record I holds           *)
(*   itemMapper     : jsonFileName -> the owned canonical instance or none *)
(*   amount         : the amount field of every item object                *)
(*   inventory      : item type -> set of indexed instances                *)
(*   equipmentSlots : equipment type -> instance or none                   *)
(*   aborted        : the assert of removeItem has failed                  *)
(*   net            : (history) per identifier, the sum of the amounts     *)
(*                    that addItem added minus those removeItem removed    *)
(***************************************************************************)
EmptyInventory ==
  [ itemMapper     |-> [j \in Items |-> NoItem],
    amount         |-> [o \in ItemObjs |-> 0],
    inventory      |-> [t \in ItemTypes |-> {}],
    equipmentSlots |-> [t \in EquipTypes |-> NoItem],
    aborted        |-> FALSE,
    net            |-> [j \in Items |-> 0] ]

getExistingItemObj(I, item) ==
  IF item = NoItem THEN NoItem ELSE I.itemMapper[item.json]

getItemAmount(I, json) ==
  IF I.itemMapper[json] = NoItem THEN 0 ELSE I.amount[I.itemMapper[json]]

\* a plausible slip: the existing instance's amount is overwritten, not increased
addItemOverwrite(I, item, amount) ==
  IF item = NoItem \/ amount = 0 THEN I
  ELSE LET existing == getExistingItemObj(I, item)
           obj == IF existing # NoItem THEN existing ELSE item
       IN [I EXCEPT !.amount[obj] = amount,
                    !.itemMapper[obj.json] = obj,
                    !.inventory[ItemType(obj)] = @ \cup {obj},
                    !.net[obj.json] = @ + amount]

addItem(I, item, amount) ==
  IF item = NoItem \/ amount = 0 THEN I
  ELSE LET existing == getExistingItemObj(I, item)
       IN IF existing # NoItem
          THEN [I EXCEPT !.amount[existing] = @ + amount,
                         !.inventory[ItemType(existing)] = @ \cup {existing},
                         !.net[existing.json] = @ + amount]
          ELSE [I EXCEPT !.amount[item] = amount,
                         !.itemMapper[item.json] = item,
                         !.inventory[ItemType(item)] = @ \cup {item},
                         !.net[item.json] = @ + amount]

\* a plausible slip: the category index entry is kept when the amount reaches 0
removeItemKeepIndex(I, item, amount) ==
  LET existing == getExistingItemObj(I, item)
  IN IF existing = NoItem \/ amount = 0 THEN I
     ELSE LET finalAmount == I.amount[existing] - amount
          IN IF finalAmount < 0 THEN [I EXCEPT !.aborted = TRUE]
             ELSE [I EXCEPT !.amount[existing] = finalAmount,
                            !.net[existing.json] = @ - amount]

\* a plausible slip: the amount is not asserted to stay >= 0
removeItemNoAssert(I, item, amount) ==
  LET existing == getExistingItemObj(I, item)
  IN IF existing = NoItem \/ amount = 0 THEN I
     ELSE LET finalAmount == I.amount[existing] - amount
              I1 == [I EXCEPT !.amount[existing] = finalAmount,
                              !.net[existing.json] = @ - amount]
          IN IF finalAmount # 0 THEN I1
             ELSE LET I2 == [I1 EXCEPT !.inventory[ItemType(item)] = @ \ {existing}]
                  IN IF \/ ~IsEquipment(existing)
                        \/ I2.equipmentSlots[EquipmentType(existing)] # existing
                     THEN [I2 EXCEPT !.itemMapper[item.json] = NoItem]
                     ELSE I2

\* a plausible slip: the instance is erased from the owning map at amount 0
\* whether or not it is equipped
removeItemErasesEquipped(I, item, amount) ==
  LET existing == getExistingItemObj(I, item)
  IN IF existing = NoItem \/ amount = 0 THEN I
     ELSE LET finalAmount == I.amount[existing] - amount
              I1 == [I EXCEPT !.amount[existing] = finalAmount,
                              !.net[existing.json] = @ - amount]
          IN IF finalAmount < 0 THEN [I EXCEPT !.aborted = TRUE]
             ELSE IF finalAmount # 0 THEN I1
             ELSE [I1 EXCEPT !.inventory[ItemType(item)] = @ \ {existing},
                             !.itemMapper[item.json] = NoItem]

removeItem(I, item, amount) ==
  LET existing == getExistingItemObj(I, item)
  IN IF existing = NoItem \/ amount = 0 THEN I
     ELSE LET finalAmount == I.amount[existing] - amount
              I1 == [I EXCEPT !.amount[existing] = finalAmount,
                              !.net[existing.json] = @ - amount]
          IN IF finalAmount < 0 THEN [I EXCEPT !.aborted = TRUE]
             ELSE IF finalAmount # 0 THEN I1
             ELSE LET I2 == [I1 EXCEPT !.inventory[ItemType(item)] = @ \ {existing}]
                  IN IF \/ ~IsEquipment(existing)
                        \/ I2.equipmentSlots[EquipmentType(existing)] # existing
                     THEN [I2 EXCEPT !.itemMapper[item.json] = NoItem]
                     ELSE I2

\* a plausible slip: the unequipped item is not given back to the inventory
unequipLosingItem(I, equipmentType) ==
  IF I.equipmentSlots[equipmentType] = NoItem THEN I
  ELSE [I EXCEPT !.equipmentSlots[equipmentType] = NoItem]

unequip(I, equipmentType) ==
  IF I.equipmentSlots[equipmentType] = NoItem THEN I
  ELSE LET e == I.equipmentSlots[equipmentType]
           I1 == [I EXCEPT !.equipmentSlots[equipmentType] = NoItem]
       IN IF I1.itemMapper[e.json] = NoItem THEN I1
          ELSE addItem(I1, I1.itemMapper[e.json], 1)

equip(I, equipment) ==
  LET type == EquipmentType(equipment)
      I1 == IF I.equipmentSlots[type] # NoItem THEN unequip(I, type) ELSE I
      I2 == [I1 EXCEPT !.equipmentSlots[type] = equipment]
  IN removeItem(I2, equipment, 1)

(***************************************************************************)
(* Time.  CallbackManager::runAfter(callback, delay) is modelled by a bag  *)
(* of callbacks, each with the ticks left before it is due (1 tick is      *)
(* 0.05 s).  A callback runs when no tick is left; time does not advance   *)
(* past a due callback.                                                    *)
(***************************************************************************)
\* .25f seconds: the taking-damage window
TakingDamageTicks == 5
\* .4f seconds: the delay before a non-player attacker's hits
NpcDamageDelayTicks == 8
\* .2f seconds: the jump lock
JumpLockTicks == 4
\* .25f seconds: the feet fixture stays a sensor after jumpDown
JumpDownTicks == 5
\* the linear damping of the body during a dodge: SetLinearDamping(4.0f)
DodgeDamping == 4
\* 5.0f seconds: the period of stats regeneration, in seconds of update's delta
RegenPeriod == 5
\* _baseRegenDeltaHealth, the health regenerated each period
BaseRegenDeltaHealth == 5

\* frames are explored with a delta of 1 .. MaxDelta seconds
MaxDelta == 2
\* duration of an attack animation, in ticks (profile data)
AttackAnimTicks == 2
\* at most this many callbacks of one kind are pending for one character
MaxPending == 2
\* profile data of the characters explored
FullHealth == 10
BaseMeleeDamage == 3
PotionRestoreHealth == 4
\* operations are explored while health stays <= this
HealthCap == 12
\* attacks are accepted while a character has dispatched fewer ATTACKING animations
MaxDispatches == 4
\* at most this many extra attack animations (attacking1, attacking2, ...)
MaxExtraAttackAnimations == 2
\* an attack inflicts damage at most this many times
MaxHits == 2
\* the longest interval between the delayed hits of an attack, in ticks
MaxHitInterval == 1
\* _characterProfile.moveSpeed, in the units of the horizontal velocity
MoveSpeed == 500
\* fixtures are rebuilt while a character has built fewer than this many
MaxFixtures == 7
\* jumps are explored while fewer than this many were accepted since the landing
MaxJumps == 3
\* at most this many map loads are explored
MaxLoads == 2
\* items are discarded while fewer than this many stacks lie on the map
MaxDropped == 1
\* framesDuration of a skill, in ticks (profile data)
SkillTicks == 2
\* a character activates at most this many skills
MaxSkillActivations == 2
\* Skill::create is explored while a character has created fewer skill
\* instances than this
MaxSkillsCreated == 4

Callback(kind, self, left) == [kind |-> kind, self |-> self, left |-> left]

runAfter(P, cb) == P (+) SetToBag({cb})

PendingOf(P, kind, self) ==
  {cb \in BagToSet(P) : cb.kind = kind /\ cb.self = self}

\* how many callbacks of a kind are pending for a character
PendingCount(P, kind, self) ==
  LET S == PendingOf(P, kind, self)
      RECURSIVE Sum(_)
      Sum(T) == IF T = {} THEN 0
                ELSE LET x == CHOOSE y \in T : TRUE
                     IN CopiesIn(x, P) + Sum(T \ {x})
  IN Sum(S)

(***************************************************************************)
(* Character state.                                                        *)
(***************************************************************************)
States ==
  { "IDLE", "RUNNING_START", "RUNNING", "RUNNING_STOP", "JUMPING", "FALLING",
    "FALLING_GETUP", "CROUCHING", "DODGING_BACKWARD", "DODGING_FORWARD",
    "ATTACKING", "ATTACKING_UNARMED", "ATTACKING_CROUCH", "ATTACKING_FORWARD",
    "ATTACKING_MIDAIR", "ATTACKING_MIDAIR_DOWNWARD", "ATTACKING_UPWARD",
    "SPELLCAST", "KILLED", "FORCE_UPDATE" }

AttackStates ==
  { "ATTACKING", "ATTACKING_UNARMED", "ATTACKING_CROUCH", "ATTACKING_FORWARD",
    "ATTACKING_MIDAIR", "ATTACKING_MIDAIR_DOWNWARD", "ATTACKING_UPWARD" }

isAttackState(state) == state \in AttackStates

(***************************************************************************)
(* Skills.  A skill instance is a heap object: its name (one json file per *)
(* name) and a serial number that tells instances of one name apart.       *)
(***************************************************************************)
SkillNames == {"slash", "fireball"}
SkillTypes == {"MELEE", "MAGIC"}

\* getSkillProfile().skillType of a skill
SkillTypeOf(name) == IF name = "fireball" THEN "MAGIC" ELSE "MELEE"

NoSkill == [name |-> "none", ser |-> 0]

\* _skillMapper, _skillBook and _activeSkills of a character that has learned
\* nothing; created counts the instances Skill::create made for it
NoSkills ==
  [ skillMapper  |-> [n \in SkillNames |-> NoSkill],
    skillBook    |-> [t \in SkillTypes |-> {}],
    activeSkills |-> {},
    created      |-> 0 ]

\* the instance Skill::create(name, this) returns
createSkill(S, name) == [name |-> name, ser |-> S.created + 1]

\* addSkill(skill) of an instance created just before; an instance that is
\* not taken over is destroyed with its unique_ptr
addSkill(S, skill) ==
  IF S.skillMapper[skill.name] # NoSkill THEN [S EXCEPT !.created = @ + 1]
  ELSE [S EXCEPT !.skillBook[SkillTypeOf(skill.name)] = @ \cup {skill},
                 !.skillMapper[skill.name] = skill,
                 !.created = @ + 1]

removeSkill(S, skill) ==
  IF S.skillMapper[skill.name] = NoSkill THEN S
  ELSE [S EXCEPT !.skillBook[SkillTypeOf(skill.name)] = @ \ {skill},
                 !.skillMapper[skill.name] = NoSkill]

removeActiveSkill(S, skill) == [S EXCEPT !.activeSkills = @ \ {skill}]

\* a plausible slip: the learned instance itself, not a copy of it, is put
\* into the active set
spawnActiveSkillNoCopy(S, skill) ==
  [S EXCEPT !.activeSkills = @ \cup {skill}]

\* the copy activateSkill creates and inserts into _activeSkills
spawnActiveSkill(S, skill) ==
  [S EXCEPT !.activeSkills = @ \cup {createSkill(S, skill.name)},
            !.created = @ + 1]

\* _characterProfile.defaultSkills of the characters explored
DefaultSkills == {"slash"}

\* the constructor's loop over the default skills
LearnDefaultSkills(S, names) ==
  LET RECURSIVE Learn(_, _)
      Learn(T, ns) ==
        IF ns = {} THEN T
        ELSE LET n == CHOOSE x \in ns : TRUE
             IN Learn(addSkill(T, createSkill(T, n)), ns \ {n})
  IN Learn(S, names)

\* the fields of a Character after construction and placement on the map
NewCharacter(isPlayer, health, party, extraAttackAnimations) ==
  [ isPlayer                |-> isPlayer,
    party                   |-> party,
    isShownOnMap            |-> TRUE,
    isKilled                |-> FALSE,
    isSetToKill             |-> FALSE,
    isInvincible            |-> FALSE,
    isTakingDamage          |-> FALSE,
    isAlerted               |-> FALSE,
    isAttacking             |-> FALSE,
    isGettingUpFromFalling  |-> FALSE,
    isCrouching             |-> FALSE,
    isJumping               |-> FALSE,
    isDoubleJumping         |-> FALSE,
    isJumpingDisallowed     |-> FALSE,
    canDoubleJump           |-> FALSE,  \* _characterProfile.canDoubleJump
    jumpsSinceLanding       |-> 0,      \* history: jumps accepted since the landing
    linearDamping           |-> 0,      \* _body->GetLinearDamping()
    bodyCommand             |-> NULL,   \* the last velocity / impulse given to _body
    isDodgingBackward       |-> FALSE,
    isDodgingForward        |-> FALSE,
    isStartRunning          |-> FALSE,
    isStopRunning           |-> FALSE,
    isUsingSkill            |-> FALSE,
    skillActivations        |-> 0,      \* history: skills activated so far
    skills                  |-> LearnDefaultSkills(NoSkills, DefaultSkills),
    isFacingRight           |-> TRUE,
    overridingAttackState   |-> NULL,
    currentState            |-> "IDLE",
    previousState           |-> "IDLE",
    previousBodyVelocityX   |-> 0,
    attackAnimationIdx      |-> 0,
    kAttackAnimationIdxMax  |-> 1 + extraAttackAnimations,
    attackDispatches        |-> 0,      \* history: ATTACKING dispatches so far
    action                  |-> "IDLE", \* the animation the sprite is running
    statsRegenTimer         |-> 0,
    health                  |-> health,
    fullHealth              |-> FullHealth,
    baseMeleeDamage         |-> BaseMeleeDamage,
    bodyCategoryBits        |-> "kCharacter",
    bodyDestroyed           |-> FALSE,
    danglingAccess          |-> FALSE,  \* the destroyed body or a fixture of it was used
    crashed                 |-> FALSE,  \* such a use ended the process
    isOnPlatform            |-> FALSE,
    spriteFlippedX          |-> FALSE,  \* _bodySprite->isFlippedX()
    \* the fixtures defineBody built: _fixtures, the handle of each kind, and
    \* the fixtures attached to _body
    fixtures                |-> [BODY |-> 1, FEET |-> 2, WEAPON |-> 3],
    bodyFixtureList         |-> {[kind |-> "BODY", id |-> 1],
                                 [kind |-> "FEET", id |-> 2],
                                 [kind |-> "WEAPON", id |-> 3]},
    fixturesCreated         |-> 3,      \* history: fixtures built so far
    feetIsSensor            |-> FALSE,  \* _fixtures[FEET]->IsSensor()
    lockedOnTarget          |-> NULL,
    inRangeTargets          |-> {} ]

\* Party::getMembers() and Party::getLeader() as Character::getAllies reads them
getAllies(P, C, self) ==
  IF C[self].party = NULL THEN {}
  ELSE LET party == P[C[self].party]
       IN party.members \cup (IF party.leader # self THEN {party.leader} ELSE {})

\* a use of _body or of one of _fixtures: of freed memory once the body has
\* been destroyed
useBody(ch) ==
  IF ch.bodyDestroyed THEN [ch EXCEPT !.danglingAccess = TRUE] ELSE ch

\* a null b2Fixture*; fixtures are numbered from 1
NoFixture == 0

\* FixtureType
FixtureTypes == {"BODY", "FEET", "WEAPON"}

\* _body->DestroyFixture(fixture): the fixture leaves the body; a null fixture
\* is dereferenced
DestroyFixture(ch, fixture) ==
  IF fixture = NoFixture THEN [ch EXCEPT !.danglingAccess = TRUE]
  ELSE [useBody(ch) EXCEPT !.bodyFixtureList = {f \in @ : f.id # fixture}]

\* B2BodyBuilder{_body}.new...Fixture(...).buildFixture(), stored in
\* _fixtures[kind]
buildFixture(ch, kind) ==
  LET id == ch.fixturesCreated + 1
  IN [useBody(ch) EXCEPT !.fixturesCreated = id,
                         !.bodyFixtureList = @ \cup {[kind |-> kind, id |-> id]},
                         !.fixtures[kind] = id]

redefineBodyFixture(ch) ==
  LET ch1 == IF ch.fixtures["BODY"] # NoFixture
             THEN [DestroyFixture(ch, ch.fixtures["BODY"])
                     EXCEPT !.fixtures["BODY"] = NoFixture]
             ELSE ch
  IN buildFixture(ch1, "BODY")

\* when a feet fixture exists, the fixture destroyed and the handle cleared
\* are those of BODY
redefineFeetFixture(ch) ==
  LET ch1 == IF ch.fixtures["FEET"] # NoFixture
             THEN [DestroyFixture(ch, ch.fixtures["BODY"])
                     EXCEPT !.fixtures["BODY"] = NoFixture]
             ELSE ch
  IN buildFixture(ch1, "FEET")

redefineWeaponFixture(ch) ==
  LET ch1 == IF ch.fixtures["WEAPON"] # NoFixture
             THEN [DestroyFixture(ch, ch.fixtures["WEAPON"])
                     EXCEPT !.fixtures["WEAPON"] = NoFixture]
             ELSE ch
  IN buildFixture(ch1, "WEAPON")

\* defineBody on a character without body: a new body, then the three
\* fixtures
defineBody(ch) ==
  redefineWeaponFixture(redefineFeetFixture(redefineBodyFixture(
    [ch EXCEPT !.bodyFixtureList = {}, !.bodyDestroyed = FALSE])))

lockOn(C, self, target) ==
  [C EXCEPT ![self].isAlerted = TRUE, ![self].lockedOnTarget = target]

(***************************************************************************)
(* Combat.  A world W is [chr, inv, pending, ret]: the state the nested    *)
(* calls of one operation pass along, and the value the last one returned. *)
(***************************************************************************)
World(C, I, P, ret) == [chr |-> C, inv |-> I, pending |-> P, ret |-> ret]

\* a plausible slip: the test of the source's set-to-kill and killed flags is
\* missing
receiveDamageNoSourceTest(W, self, source, damage) ==
  IF source = NULL THEN [W EXCEPT !.ret = FALSE]
  ELSE IF W.chr[self].isInvincible THEN [W EXCEPT !.ret = TRUE]
  ELSE
    LET C1 == [W.chr EXCEPT ![self].health = @ - damage,
                            ![self].isTakingDamage = TRUE]
        P1 == runAfter(W.pending, Callback("takingDamage", self, TakingDamageTicks))
        sourceAllies == getAllies(parties, C1, source)
        \* source->getInRangeTargets().erase(this), then every ally of source
        C2 == [c \in DOMAIN C1 |->
                 IF c = source /\ c \notin sourceAllies
                 THEN [C1[c] EXCEPT !.inRangeTargets = @ \ {self}]
                 ELSE IF c \in sourceAllies
                 THEN [C1[c] EXCEPT !.inRangeTargets = @ \ {self},
                                    !.lockedOnTarget = IF @ = self THEN NULL ELSE @]
                 ELSE C1[c]]
        C3 == [C2 EXCEPT ![self] = [useBody(@) EXCEPT !.health = 0,
                                                      !.bodyCategoryBits = "kDestroyed",
                                                      !.isSetToKill = TRUE]]
    IN [W EXCEPT !.chr = IF C1[self].health <= 0 THEN C3 ELSE C1,
                 !.pending = P1, !.ret = TRUE]

receiveDamage(W, self, source, damage) ==
  IF source = NULL THEN [W EXCEPT !.ret = FALSE]
  ELSE IF W.chr[source].isSetToKill \/ W.chr[source].isKilled
  THEN [W EXCEPT !.ret = FALSE]
  ELSE IF W.chr[self].isInvincible THEN [W EXCEPT !.ret = TRUE]
  ELSE
    LET C1 == [W.chr EXCEPT ![self].health = @ - damage,
                            ![self].isTakingDamage = TRUE]
        P1 == runAfter(W.pending, Callback("takingDamage", self, TakingDamageTicks))
        sourceAllies == getAllies(parties, C1, source)
        \* source->getInRangeTargets().erase(this), then every ally of source
        C2 == [c \in DOMAIN C1 |->
                 IF c = source /\ c \notin sourceAllies
                 THEN [C1[c] EXCEPT !.inRangeTargets = @ \ {self}]
                 ELSE IF c \in sourceAllies
                 THEN [C1[c] EXCEPT !.inRangeTargets = @ \ {self},
                                    !.lockedOnTarget = IF @ = self THEN NULL ELSE @]
                 ELSE C1[c]]
        C3 == [C2 EXCEPT ![self] = [useBody(@) EXCEPT !.health = 0,
                                                      !.bodyCategoryBits = "kDestroyed",
                                                      !.isSetToKill = TRUE]]
    IN [W EXCEPT !.chr = IF C1[self].health <= 0 THEN C3 ELSE C1,
                 !.pending = P1, !.ret = TRUE]

\* a plausible slip: the target's allies are not alerted
inflictDamageNoTargetAllies(W, self, target, damage) ==
  IF target = NULL THEN [W EXCEPT !.ret = FALSE]
  ELSE
    LET W1 == receiveDamage(W, target, self, damage)
        C1 == lockOn(W1.chr, target, self)
        C2 == [c \in DOMAIN C1 |->
                 IF c \in getAllies(parties, C1, self) THEN lockOn(C1, c, target)[c]
                 ELSE C1[c]]
    IN [W1 EXCEPT !.chr = C2, !.ret = TRUE]

inflictDamage(W, self, target, damage) ==
  IF target = NULL THEN [W EXCEPT !.ret = FALSE]
  ELSE
    LET W1 == receiveDamage(W, target, self, damage)
        C1 == lockOn(W1.chr, target, self)
        C2 == [c \in DOMAIN C1 |->
                 IF c \in getAllies(parties, C1, self) THEN lockOn(C1, c, target)[c]
                 ELSE C1[c]]
        C3 == [c \in DOMAIN C2 |->
                 IF c \in getAllies(parties, C2, target) THEN lockOn(C2, c, self)[c]
                 ELSE C2[c]]
    IN [W1 EXCEPT !.chr = C3, !.ret = TRUE]

\* rand_util::randInt(-5, 5): the smallest, the middle and the largest draw
RandDraws == {-5, 0, 5}

weaponBonusPhysicalDamage(I) ==
  IF I.equipmentSlots["WEAPON"] = NoItem THEN 0
  ELSE IF I.equipmentSlots["WEAPON"].json = "sword" THEN 2 ELSE 1

getDamageOutput(W, self, rand) ==
  W.chr[self].baseMeleeDamage + weaponBonusPhysicalDamage(W.inv[self]) + rand

regenHealth(ch, deltaHealth) ==
  LET health == ch.health + deltaHealth
  IN [ch EXCEPT !.health = IF health > ch.fullHealth THEN ch.fullHealth ELSE health]

\* discardItem(item, amount): the body's position is read, the map gets a
\* stack of the item there (the caller adds it to droppedItems), and the
\* amount is removed from the inventory
discardItem(W, self, item, amount) ==
  [W EXCEPT !.chr[self] = useBody(@),
            !.inv[self] = removeItem(@, item, amount)]

\* the health part of the consumable's effects, then removeItem(consumable, 1)
useItem(W, self, consumable) ==
  LET health == W.chr[self].health + PotionRestoreHealth
      C1 == [W.chr EXCEPT ![self].health =
               IF health > W.chr[self].fullHealth THEN W.chr[self].fullHealth
               ELSE health]
  IN [W EXCEPT !.chr = C1,
               !.inv = [W.inv EXCEPT ![self] = removeItem(@, consumable, 1)]]

(***************************************************************************)
(* Animation / state machine.  The body's velocity belongs to the physics  *)
(* engine: the operations that read it take it as an input (vx, vy in      *)
(* thousandths).                                                           *)
(***************************************************************************)
determineAttackState(ch, I) ==
  IF ch.overridingAttackState # NULL THEN ch.overridingAttackState
  ELSE IF I.equipmentSlots["WEAPON"] = NoItem THEN "ATTACKING_UNARMED"
  ELSE IF ch.isCrouching THEN "ATTACKING_CROUCH"
  ELSE IF ch.isJumping THEN "ATTACKING_MIDAIR"
  ELSE "ATTACKING"

Abs(x) == IF x < 0 THEN -x ELSE x

\* a plausible slip: the jumping test is made before the falling test
determineStateJumpFirst(ch, I, vx, vy) ==
  IF ch.isSetToKill THEN "KILLED"
  ELSE IF ch.isGettingUpFromFalling THEN "FALLING_GETUP"
  ELSE IF ch.isAttacking THEN determineAttackState(ch, I)
  ELSE IF ch.isDodgingBackward THEN "DODGING_BACKWARD"
  ELSE IF ch.isDodgingForward THEN "DODGING_FORWARD"
  ELSE IF ch.isJumping THEN "JUMPING"
  ELSE IF vy < -2500 THEN "FALLING"
  ELSE IF ch.isCrouching THEN "CROUCHING"
  ELSE IF ch.isStartRunning THEN "RUNNING_START"
  ELSE IF ch.isStopRunning THEN "RUNNING_STOP"
  ELSE IF Abs(vx) > 10 THEN "RUNNING"
  ELSE "IDLE"

determineState(ch, I, vx, vy) ==
  IF ch.isSetToKill THEN "KILLED"
  ELSE IF ch.isGettingUpFromFalling THEN "FALLING_GETUP"
  ELSE IF ch.isAttacking THEN determineAttackState(ch, I)
  ELSE IF ch.isDodgingBackward THEN "DODGING_BACKWARD"
  ELSE IF ch.isDodgingForward THEN "DODGING_FORWARD"
  ELSE IF vy < -2500 THEN "FALLING"
  ELSE IF ch.isJumping THEN "JUMPING"
  ELSE IF ch.isCrouching THEN "CROUCHING"
  ELSE IF ch.isStartRunning THEN "RUNNING_START"
  ELSE IF ch.isStopRunning THEN "RUNNING_STOP"
  ELSE IF Abs(vx) > 10 THEN "RUNNING"
  ELSE "IDLE"

\* duration of the animation of a state, in ticks (profile data)
AnimationTicks(state) == AttackAnimTicks

\* a plausible slip: every attack variant advances the attack animation index
runAnimationAnyAttack(ch, state) ==
  IF isAttackState(state)
  THEN [ch EXCEPT !.action = state,
                  !.attackAnimationIdx = (@ + 1) % ch.kAttackAnimationIdxMax,
                  !.attackDispatches = IF state = "ATTACKING" THEN @ + 1 ELSE @]
  ELSE [ch EXCEPT !.action = state]

\* runAnimation(state, loop), and runAnimation(KILLED, onKilled): the sprite
\* stops its actions and runs the animation of `state`
runAnimation(ch, state) ==
  IF state = "ATTACKING"
  THEN [ch EXCEPT !.action = state,
                  !.attackAnimationIdx = (@ + 1) % ch.kAttackAnimationIdxMax,
                  !.attackDispatches = @ + 1]
  ELSE [ch EXCEPT !.action = state]

stopRunning(W, self) ==
  [W EXCEPT !.chr[self].isStopRunning = TRUE,
            !.pending = runAfter(@, Callback("stopRunning", self,
                                             AnimationTicks("RUNNING_STOP")))]

maybeOverrideCurrentStateWithStopRunningState(W, self, vx) ==
  LET ch == W.chr[self]
      isMovingForward == (ch.isFacingRight /\ vx > 0) \/ (~ch.isFacingRight /\ vx < 0)
  IN IF Abs(ch.previousBodyVelocityX) >= 10 /\ Abs(vx) < 10 /\ isMovingForward
     THEN stopRunning(W, self)
     ELSE W

\* update(delta), the body's velocity being vx, vy.  update returns nothing:
\* ret is the state whose animation it dispatched, NULL when it dispatched none
update(W, self, delta, vx, vy) ==
  LET ch == W.chr[self]
  IN IF ~ch.isShownOnMap \/ ch.isKilled THEN W
     ELSE
       LET timer == ch.statsRegenTimer + delta
           \* the sprite and the weapon fixture follow the facing direction
           ch0 == IF ch.isFacingRight = ch.spriteFlippedX
                  THEN redefineWeaponFixture(
                         [ch EXCEPT !.spriteFlippedX = ~ch.isFacingRight])
                  ELSE ch
           ch1 == IF timer >= RegenPeriod
                  THEN regenHealth([useBody(ch0) EXCEPT !.statsRegenTimer = 0],
                                   BaseRegenDeltaHealth)
                  ELSE [useBody(ch0) EXCEPT !.statsRegenTimer = timer]
           W1 == [W EXCEPT !.chr[self] = ch1]
       IN IF ch1.isUsingSkill THEN W1
          ELSE
            LET state == determineState(ch1, W.inv[self], vx, vy)
                W2 == [W1 EXCEPT !.chr[self].previousState = ch1.currentState,
                                 !.chr[self].currentState = state]
                W3 == maybeOverrideCurrentStateWithStopRunningState(W2, self, vx)
                W4 == [W3 EXCEPT !.chr[self].previousBodyVelocityX = vx]
            IN IF W4.chr[self].previousState # W4.chr[self].currentState
               THEN [W4 EXCEPT !.chr[self] = runAnimation(@, state),
                               !.ret = state]
               ELSE W4

\* the completion callback of the KILLED animation
onKilled(W, self) ==
  [W EXCEPT !.chr[self] = [useBody(@) EXCEPT !.isKilled = TRUE,
                                             !.bodyDestroyed = TRUE]]

\* StaticActor::removeFromMap() fails for an actor that is not shown and
\* otherwise clears _isShownOnMap
removeFromMap(W, self) ==
  IF ~W.chr[self].isShownOnMap THEN [W EXCEPT !.ret = FALSE]
  ELSE LET ch == [W.chr[self] EXCEPT !.isShownOnMap = FALSE]
       IN [W EXCEPT !.chr[self] = IF ~ch.isKilled
                                  THEN [useBody(ch) EXCEPT !.bodyDestroyed = TRUE]
                                  ELSE ch,
                    !.ret = TRUE]

jumpDown(W, self) ==
  IF ~W.chr[self].isOnPlatform THEN W
  ELSE [W EXCEPT !.chr[self] = [useBody(@) EXCEPT !.feetIsSensor = TRUE],
                 !.pending = runAfter(@, Callback("jumpDown", self, JumpDownTicks))]

knockBack(W, self, target) ==
  IF target = NULL THEN W
  ELSE [W EXCEPT !.chr[target] = [useBody(@) EXCEPT !.bodyCommand = "knockBack"]]

startRunning(W, self) ==
  [W EXCEPT !.chr[self].isStartRunning = TRUE,
            !.pending = runAfter(@, Callback("startRunning", self,
                                             AnimationTicks("RUNNING_START")))]

\* moveLeft(), the body's horizontal velocity being vx
moveLeft(W, self, vx) ==
  LET W1 == [W EXCEPT !.chr[self].isFacingRight = FALSE]
      ch == W1.chr[self]
  IN IF ch.isCrouching \/ ch.isGettingUpFromFalling THEN W1
     ELSE
       LET W2 == IF vx = 0 THEN startRunning(W1, self) ELSE W1
       IN IF vx >= -(MoveSpeed * 2)
          THEN [W2 EXCEPT !.chr[self] = [useBody(@) EXCEPT !.bodyCommand = "moveLeft"]]
          ELSE [W2 EXCEPT !.chr[self] = useBody(@)]

\* moveRight(), the body's horizontal velocity being vx
moveRight(W, self, vx) ==
  LET W1 == [W EXCEPT !.chr[self].isFacingRight = TRUE]
      ch == W1.chr[self]
  IN IF ch.isCrouching \/ ch.isGettingUpFromFalling THEN W1
     ELSE
       LET W2 == IF vx = 0 THEN startRunning(W1, self) ELSE W1
       IN IF vx <= MoveSpeed * 2
          THEN [W2 EXCEPT !.chr[self] = [useBody(@) EXCEPT !.bodyCommand = "moveRight"]]
          ELSE [W2 EXCEPT !.chr[self] = useBody(@)]

crouch(W, self) ==
  IF W.chr[self].isCrouching \/ W.chr[self].isJumping THEN W
  ELSE [W EXCEPT !.chr[self] =
          redefineWeaponFixture(redefineBodyFixture([@ EXCEPT !.isCrouching = TRUE]))]

getUpFromCrouching(W, self) ==
  IF ~W.chr[self].isCrouching THEN W
  ELSE [W EXCEPT !.chr[self] =
          redefineWeaponFixture(redefineBodyFixture([@ EXCEPT !.isCrouching = FALSE]))]

getUpFromFalling(W, self) ==
  [W EXCEPT !.chr[self].isGettingUpFromFalling = TRUE,
            !.pending = runAfter(@, Callback("getUpFromFalling", self,
                                             AnimationTicks("FALLING_GETUP")))]

onFallToGroundOrPlatform(W, self, vy) ==
  IF vy < -4500 THEN getUpFromFalling(W, self) ELSE W

\* a plausible slip: the timer-based jump lock is not tested
jumpNoLockTest(W, self) ==
  LET ch == W.chr[self]
  IN IF (~ch.canDoubleJump /\ ch.isJumping) \/ (ch.canDoubleJump /\ ch.isDoubleJumping)
     THEN W
     ELSE [W EXCEPT !.chr[self].isJumpingDisallowed = TRUE,
                    !.chr[self].isJumping = TRUE,
                    !.chr[self].jumpsSinceLanding = @ + 1,
                    !.chr[self].bodyCommand = "jump",
                    !.pending = runAfter(@, Callback("jumpLock", self, JumpLockTicks))]

jump(W, self) ==
  LET ch == W.chr[self]
  IN IF \/ ch.isJumpingDisallowed
        \/ (~ch.canDoubleJump /\ ch.isJumping)
        \/ (ch.canDoubleJump /\ ch.isDoubleJumping)
     THEN W
     ELSE
       LET ch1 == IF ch.isJumping
                  THEN [runAnimation(ch, "JUMPING") EXCEPT !.isDoubleJumping = TRUE,
                                                           !.bodyCommand = "zeroVy"]
                  ELSE ch
       IN [W EXCEPT !.chr[self] = [useBody(ch1) EXCEPT !.isJumpingDisallowed = TRUE,
                                                       !.isJumping = TRUE,
                                                       !.jumpsSinceLanding = @ + 1,
                                                       !.bodyCommand = "jump"],
                    !.pending = runAfter(@, Callback("jumpLock", self, JumpLockTicks))]

\* the feet touch the ground or a platform: the contact listener clears the
\* jumping flags and calls onFallToGroundOrPlatform()
land(W, self, vy) ==
  onFallToGroundOrPlatform(
    [W EXCEPT !.chr[self].isJumping = FALSE,
              !.chr[self].isDoubleJumping = FALSE,
              !.chr[self].jumpsSinceLanding = 0], self, vy)

\* the callback dodge schedules: it holds a copy of the damping the body had
\* when the dodge began and a reference to the flag of its dodge
DodgeRecovery(dodgeState, self, originalBodyDamping) ==
  [kind |-> dodgeState, self |-> self, left |-> AnimationTicks(dodgeState),
   originalBodyDamping |-> originalBodyDamping]

isDodging(ch) == ch.isDodgingBackward \/ ch.isDodgingForward

\* a plausible slip: each dodge tests only its own flag
dodgeOwnFlagOnly(W, self, dodgeState) ==
  LET ch == W.chr[self]
      own == IF dodgeState = "DODGING_BACKWARD" THEN ch.isDodgingBackward
             ELSE ch.isDodgingForward
  IN IF own \/ ch.isDoubleJumping THEN W
     ELSE [W EXCEPT !.chr[self] =
                      [ch EXCEPT !.isDodgingBackward = @ \/ dodgeState = "DODGING_BACKWARD",
                                 !.isDodgingForward = @ \/ dodgeState = "DODGING_FORWARD",
                                 !.isInvincible = TRUE,
                                 !.linearDamping = DodgeDamping,
                                 !.bodyCommand = dodgeState],
                   !.pending = runAfter(@, DodgeRecovery(dodgeState, self,
                                                         ch.linearDamping))]

\* dodge(dodgeState, rushPowerX, isDodgingFlag); the callback restores the
\* damping read when the dodge began
dodge(W, self, dodgeState) ==
  LET ch == W.chr[self]
  IN IF isDodging(ch) \/ ch.isDoubleJumping THEN W
     ELSE [W EXCEPT !.chr[self] =
                      [useBody(ch)
                         EXCEPT !.isDodgingBackward = @ \/ dodgeState = "DODGING_BACKWARD",
                                 !.isDodgingForward = @ \/ dodgeState = "DODGING_FORWARD",
                                 !.isInvincible = TRUE,
                                 !.linearDamping = DodgeDamping,
                                 !.bodyCommand = dodgeState],
                   !.pending = runAfter(@, DodgeRecovery(dodgeState, self,
                                                         ch.linearDamping))]

dodgeBackward(W, self) == dodge(W, self, "DODGING_BACKWARD")

dodgeForward(W, self) == dodge(W, self, "DODGING_FORWARD")

\* a plausible slip: the test of the getting-up flag is missing
attackNoGetUpTest(W, self, attackState, numTimesInflictDamage, interval, first) ==
  IF ~isAttackState(attackState) THEN [W EXCEPT !.ret = FALSE]
  ELSE IF W.chr[self].isAttacking \/ isAttackState(W.chr[self].currentState)
  THEN [W EXCEPT !.ret = FALSE]
  ELSE [W EXCEPT !.chr[self].isAttacking = TRUE,
                 !.pending = runAfter(@, Callback("attack", self,
                                                  AnimationTicks(attackState))),
                 !.ret = TRUE]

\* a plausible slip: the hits of an NPC are not delayed
attackNoNpcDelay(W, self, attackState, numTimesInflictDamage, interval, first) ==
  IF ~isAttackState(attackState) THEN [W EXCEPT !.ret = FALSE]
  ELSE IF \/ W.chr[self].isAttacking
          \/ isAttackState(W.chr[self].currentState)
          \/ W.chr[self].isGettingUpFromFalling
  THEN [W EXCEPT !.ret = FALSE]
  ELSE
    LET C1 == [W.chr EXCEPT ![self].isAttacking = TRUE,
                            ![self].overridingAttackState =
                               IF attackState # "ATTACKING" THEN attackState ELSE @]
        P1 == runAfter(W.pending,
                       Callback("attack", self, AnimationTicks(attackState)))
        C2 == [C1 EXCEPT ![self].lockedOnTarget = first]
        damageDelay == 0
        \* one runAfter per i: equal due times are distinct callbacks
        hits == [cb \in {Callback("hit", self, damageDelay + interval * i) :
                           i \in 1..numTimesInflictDamage} |->
                   Cardinality({i \in 1..numTimesInflictDamage :
                                  damageDelay + interval * i = cb.left})]
    IN IF C1[self].inRangeTargets = {}
       THEN [W EXCEPT !.chr = C1, !.pending = P1, !.ret = TRUE]
       ELSE IF C2[first].isInvincible
       THEN [W EXCEPT !.chr = C2, !.pending = P1, !.ret = TRUE]
       ELSE [W EXCEPT !.chr = C2, !.pending = P1 (+) hits, !.ret = TRUE]

\* `first` is *_inRangeTargets.begin(): some element of the unordered set
attack(W, self, attackState, numTimesInflictDamage, interval, first) ==
  IF ~isAttackState(attackState) THEN [W EXCEPT !.ret = FALSE]
  ELSE IF \/ W.chr[self].isAttacking
          \/ isAttackState(W.chr[self].currentState)
          \/ W.chr[self].isGettingUpFromFalling
  THEN [W EXCEPT !.ret = FALSE]
  ELSE
    LET C1 == [W.chr EXCEPT ![self].isAttacking = TRUE,
                            ![self].overridingAttackState =
                               IF attackState # "ATTACKING" THEN attackState ELSE @]
        P1 == runAfter(W.pending,
                       Callback("attack", self, AnimationTicks(attackState)))
        C2 == [C1 EXCEPT ![self].lockedOnTarget = first]
        damageDelay == IF C1[self].isPlayer THEN 0 ELSE NpcDamageDelayTicks
        \* one runAfter per i: equal due times are distinct callbacks
        hits == [cb \in {Callback("hit", self, damageDelay + interval * i) :
                           i \in 1..numTimesInflictDamage} |->
                   Cardinality({i \in 1..numTimesInflictDamage :
                                  damageDelay + interval * i = cb.left})]
    IN IF C1[self].inRangeTargets = {}
       THEN [W EXCEPT !.chr = C1, !.pending = P1, !.ret = TRUE]
       ELSE IF C2[first].isInvincible
       THEN [W EXCEPT !.chr = C2, !.pending = P1, !.ret = TRUE]
       ELSE [W EXCEPT !.chr = C2, !.pending = P1 (+) hits, !.ret = TRUE]

\* a plausible slip: a skill is activated while another one is still in use
activateSkillWhileUsingSkill(W, self, skill, canActivate, hasFrames) ==
  IF ~canActivate THEN W
  ELSE [W EXCEPT !.chr[self].isUsingSkill = TRUE,
                 !.chr[self].skillActivations = @ + 1,
                 !.chr[self].skills = spawnActiveSkill(@, skill),
                 !.chr[self].action = IF hasFrames THEN "SKILL" ELSE @,
                 !.pending = runAfter(@, Callback("skill", self, SkillTicks))]

\* activateSkill(skill): skill is the instance the caller passes, canActivate
\* is skill->canActivate(), hasFrames is whether the skill names character
\* frames to animate
activateSkill(W, self, skill, canActivate, hasFrames) ==
  IF W.chr[self].isUsingSkill \/ ~canActivate THEN W
  ELSE [W EXCEPT !.chr[self].isUsingSkill = TRUE,
                 !.chr[self].skillActivations = @ + 1,
                 !.chr[self].skills = spawnActiveSkill(@, skill),
                 !.chr[self].action = IF hasFrames THEN "SKILL" ELSE @,
                 !.pending = runAfter(@, Callback("skill", self, SkillTicks))]

\* a plausible slip: the recovery of a dodge leaves the raised damping
dodgeCallbackKeepsDamping(W, cb) ==
  [W EXCEPT !.chr[cb.self] =
     [useBody(@) EXCEPT !.isInvincible = FALSE,
                        !.isDodgingBackward = @ /\ cb.kind # "DODGING_BACKWARD",
                        !.isDodgingForward = @ /\ cb.kind # "DODGING_FORWARD"]]

\* the callback dodge schedules for the end of the dodge animation
dodgeCallback(W, cb) ==
  [W EXCEPT !.chr[cb.self] =
     [useBody(@) EXCEPT !.linearDamping = cb.originalBodyDamping,
                        !.isInvincible = FALSE,
                        !.isDodgingBackward = @ /\ cb.kind # "DODGING_BACKWARD",
                        !.isDodgingForward = @ /\ cb.kind # "DODGING_FORWARD"]]

\* a plausible slip: the skill's callback does not force the next update to
\* dispatch
skillCallbackNoForceUpdate(W, self) ==
  [W EXCEPT !.chr[self].isUsingSkill = FALSE]

\* the callback activateSkill schedules for the end of the skill
skillCallback(W, self) ==
  [W EXCEPT !.chr[self].isUsingSkill = FALSE,
            !.chr[self].currentState = "FORCE_UPDATE"]

\* a plausible slip: the delayed hit goes to the target attack() chose, the
\* first in-range target, whatever the lock-on has become
hitCallbackOnChosenTarget(W, self, rand) ==
  LET target == IF W.chr[self].inRangeTargets = {} THEN NULL
                ELSE CHOOSE c \in W.chr[self].inRangeTargets : TRUE
  IN knockBack(inflictDamage(W, self, target, getDamageOutput(W, self, rand)),
               self, target)

\* the callback attack schedules for each hit: it reads _lockedOnTarget when
\* it runs
hitCallback(W, self, rand) ==
  LET target == W.chr[self].lockedOnTarget
  IN knockBack(inflictDamage(W, self, target, getDamageOutput(W, self, rand)),
               self, target)

\* a plausible slip: the clearance resets the flag but keeps the override
runCallbackKeepOverride(W, cb, rand) ==
  LET self == cb.self
  IN CASE cb.kind = "takingDamage" -> [W EXCEPT !.chr[self].isTakingDamage = FALSE]
       [] cb.kind = "attack" -> [W EXCEPT !.chr[self].isAttacking = FALSE]
       [] cb.kind = "stopRunning" -> [W EXCEPT !.chr[self].isStopRunning = FALSE]
       [] cb.kind = "startRunning" -> [W EXCEPT !.chr[self].isStartRunning = FALSE]
       [] cb.kind = "getUpFromFalling" ->
            [W EXCEPT !.chr[self].isGettingUpFromFalling = FALSE]
       [] cb.kind = "skill" -> skillCallback(W, self)
       [] cb.kind = "jumpLock" -> [W EXCEPT !.chr[self].isJumpingDisallowed = FALSE]
       [] cb.kind \in {"DODGING_BACKWARD", "DODGING_FORWARD"} -> dodgeCallback(W, cb)
       [] cb.kind = "jumpDown" ->
            [W EXCEPT !.chr[self] = [useBody(@) EXCEPT !.feetIsSensor = FALSE]]
       [] cb.kind = "hit" -> hitCallback(W, self, rand)

\* the body of the callback a runAfter call scheduled; `rand` is the draw of
\* getDamageOutput in a delayed hit
runCallback(W, cb, rand) ==
  LET self == cb.self
  IN CASE cb.kind = "takingDamage" -> [W EXCEPT !.chr[self].isTakingDamage = FALSE]
       [] cb.kind = "attack" -> [W EXCEPT !.chr[self].isAttacking = FALSE,
                                          !.chr[self].overridingAttackState = NULL]
       [] cb.kind = "stopRunning" -> [W EXCEPT !.chr[self].isStopRunning = FALSE]
       [] cb.kind = "startRunning" -> [W EXCEPT !.chr[self].isStartRunning = FALSE]
       [] cb.kind = "getUpFromFalling" ->
            [W EXCEPT !.chr[self].isGettingUpFromFalling = FALSE]
       [] cb.kind = "skill" -> skillCallback(W, self)
       [] cb.kind = "jumpLock" -> [W EXCEPT !.chr[self].isJumpingDisallowed = FALSE]
       [] cb.kind \in {"DODGING_BACKWARD", "DODGING_FORWARD"} -> dodgeCallback(W, cb)
       [] cb.kind = "jumpDown" ->
            [W EXCEPT !.chr[self] = [useBody(@) EXCEPT !.feetIsSensor = FALSE]]
       [] cb.kind = "hit" -> hitCallback(W, self, rand)

(***************************************************************************)
(* Actions: one per operation.  Each records itself in `call`.             *)
(***************************************************************************)
Now == World(chr, inv, pending, NULL)

Becomes(W) == chr' = W.chr /\ inv' = W.inv /\ pending' = W.pending

\* no assert and no use of freed memory has ended the process
Running == \A c \in chars : ~inv[c].aborted /\ ~chr[c].crashed

\* Item::create(json): an instance the character holds no reference to
FreshItem(I, json) ==
  LET used == {I.itemMapper[json]} \cup UNION {I.inventory[t] : t \in ItemTypes}
                \cup {I.equipmentSlots[t] : t \in EquipTypes}
      free == {o \in ItemObjs : o.json = json /\ o \notin used}
  IN CHOOSE o \in free : \A p \in free : o.ser <= p.ser

AddItem(c, json, amount) ==
  /\ Running
  /\ getItemAmount(inv[c], json) + amount <= MaxAmount
  /\ LET item == FreshItem(inv[c], json)
     IN /\ inv' = [inv EXCEPT ![c] = addItem(@, item, amount)]
        /\ call' = Call("addItem", c, <<item, amount>>, NULL)
  /\ UNCHANGED <<gmm, chars, parties, chr, pending>>

RemoveItem(c, item, amount) ==
  /\ Running
  /\ inv' = [inv EXCEPT ![c] = removeItem(@, item, amount)]
  /\ call' = Call("removeItem", c, <<item, amount>>, NULL)
  /\ UNCHANGED <<gmm, chars, parties, chr, pending>>

\* the equipment a caller can name: the instances the character owns
OwnedEquipment(I) ==
  {I.itemMapper[j] : j \in Items} \cap {o \in ItemObjs : IsEquipment(o)}

Equip(c, equipment) ==
  /\ Running
  /\ equipment \in OwnedEquipment(inv[c])
  /\ inv' = [inv EXCEPT ![c] = equip(@, equipment)]
  /\ call' = Call("equip", c, <<equipment>>, NULL)
  /\ UNCHANGED <<gmm, chars, parties, chr, pending>>

Unequip(c, equipmentType) ==
  /\ Running
  /\ inv' = [inv EXCEPT ![c] = unequip(@, equipmentType)]
  /\ call' = Call("unequip", c, <<equipmentType>>, NULL)
  /\ UNCHANGED <<gmm, chars, parties, chr, pending>>

DiscardItem(c, item, amount) ==
  /\ Running
  /\ BagCardinality(gmm.droppedItems) < MaxDropped
  /\ Becomes(discardItem(Now, c, item, amount))
  /\ gmm' = [gmm EXCEPT !.droppedItems =
                @ (+) SetToBag({[json |-> item.json, amount |-> amount]})]
  /\ call' = Call("discardItem", c, <<item, amount>>, NULL)
  /\ UNCHANGED <<chars, parties>>

UseItem(c, consumable) ==
  /\ Running
  /\ ~IsEquipment(consumable)
  /\ Becomes(useItem(Now, c, consumable))
  /\ call' = Call("useItem", c, <<consumable>>, NULL)
  /\ UNCHANGED <<gmm, chars, parties>>

ReceiveDamage(self, source, damage) ==
  /\ Running
  /\ chr[self].health - damage <= HealthCap
  /\ PendingCount(pending, "takingDamage", self) < MaxPending
  /\ LET W == receiveDamage(Now, self, source, damage)
     IN Becomes(W) /\ call' = Call("receiveDamage", self, <<source>>, W.ret)
  /\ UNCHANGED <<gmm, chars, parties>>

InflictDamage(self, target, damage) ==
  /\ Running
  /\ target # NULL =>
       /\ chr[target].health - damage <= HealthCap
       /\ PendingCount(pending, "takingDamage", target) < MaxPending
  /\ LET W == inflictDamage(Now, self, target, damage)
     IN Becomes(W) /\ call' = Call("inflictDamage", self, <<target>>, W.ret)
  /\ UNCHANGED <<gmm, chars, parties>>

Attack(self, attackState, numTimesInflictDamage, interval) ==
  /\ Running
  /\ \E first \in (IF chr[self].inRangeTargets = {} THEN {NULL}
                   ELSE chr[self].inRangeTargets) :
       LET W == attack(Now, self, attackState, numTimesInflictDamage, interval, first)
       IN /\ W.ret => /\ PendingCount(pending, "hit", self) = 0
                      /\ chr[self].attackDispatches < MaxDispatches
          /\ Becomes(W)
          /\ call' = Call("attack", self,
                          <<attackState, numTimesInflictDamage, interval>>, W.ret)
  /\ UNCHANGED <<gmm, chars, parties>>

Update(self, delta, vx, vy) ==
  /\ Running
  /\ chr[self].isFacingRight = chr[self].spriteFlippedX
       => chr[self].fixturesCreated < MaxFixtures
  /\ LET W == update(Now, self, delta, vx, vy)
     IN Becomes(W) /\ call' = Call("update", self, <<>>, W.ret)
  /\ UNCHANGED <<gmm, chars, parties>>

\* a call of the const method determineState(), the body's velocity being vx, vy
DetermineState(self, vx, vy) ==
  /\ Running
  /\ call' = Call("determineState", self, <<vx, vy>>,
                  determineState(chr[self], inv[self], vx, vy))
  /\ UNCHANGED <<gmm, chars, parties, chr, inv, pending>>

\* the sprite finishes the KILLED animation and runs its completion callback
KilledAnimationDone(self) ==
  /\ Running
  /\ chr[self].action = "KILLED"
  /\ Becomes([onKilled(Now, self) EXCEPT !.chr[self].action = NULL])
  /\ call' = Call("onKilled", self, <<>>, NULL)
  /\ UNCHANGED <<gmm, chars, parties>>

OnFallToGroundOrPlatform(self, vy) ==
  /\ Running
  /\ ~chr[self].bodyDestroyed
  /\ PendingCount(pending, "getUpFromFalling", self) = 0
  /\ Becomes(onFallToGroundOrPlatform(Now, self, vy))
  /\ call' = Call("onFallToGroundOrPlatform", self, <<>>, NULL)
  /\ UNCHANGED <<gmm, chars, parties>>

Jump(self) ==
  /\ Running
  /\ chr[self].jumpsSinceLanding < MaxJumps
  /\ Becomes(jump(Now, self))
  /\ call' = Call("jump", self, <<>>, NULL)
  /\ UNCHANGED <<gmm, chars, parties>>

\* the contact listener reports that the feet have landed
Land(self, vy) ==
  /\ Running
  /\ ~chr[self].bodyDestroyed
  /\ chr[self].isJumping
  /\ PendingCount(pending, "getUpFromFalling", self) = 0
  /\ Becomes(land(Now, self, vy))
  /\ call' = Call("land", self, <<>>, NULL)
  /\ UNCHANGED <<gmm, chars, parties>>

DodgeBackward(self) ==
  /\ Running
  /\ Becomes(dodgeBackward(Now, self))
  /\ call' = Call("dodgeBackward", self, <<>>, NULL)
  /\ UNCHANGED <<gmm, chars, parties>>

DodgeForward(self) ==
  /\ Running
  /\ Becomes(dodgeForward(Now, self))
  /\ call' = Call("dodgeForward", self, <<>>, NULL)
  /\ UNCHANGED <<gmm, chars, parties>>

\* the skills a character has learned
LearnedSkills(self) ==
  {chr[self].skills.skillMapper[n] : n \in SkillNames} \ {NoSkill}

ActivateSkill(self, skill, canActivate, hasFrames) ==
  /\ Running
  /\ \/ /\ chr[self].skillActivations < MaxSkillActivations
        /\ chr[self].skills.created < MaxSkillsCreated
     \/ chr[self].isUsingSkill \/ ~canActivate
  /\ Becomes(activateSkill(Now, self, skill, canActivate, hasFrames))
  /\ call' = Call("activateSkill", self, <<canActivate, hasFrames, skill>>, NULL)
  /\ UNCHANGED <<gmm, chars, parties>>

\* the game learns a skill: addSkill(Skill::create(name, this))
AddSkill(self, name) ==
  /\ Running
  /\ chr[self].skills.created < MaxSkillsCreated
  /\ chr' = [chr EXCEPT ![self].skills = addSkill(@, createSkill(@, name))]
  /\ call' = Call("addSkill", self, <<name>>, NULL)
  /\ UNCHANGED <<gmm, chars, parties, inv, pending>>

RemoveSkill(self, skill) ==
  /\ Running
  /\ chr' = [chr EXCEPT ![self].skills = removeSkill(@, skill)]
  /\ call' = Call("removeSkill", self, <<skill>>, NULL)
  /\ UNCHANGED <<gmm, chars, parties, inv, pending>>

RemoveActiveSkill(self, skill) ==
  /\ Running
  /\ chr' = [chr EXCEPT ![self].skills = removeActiveSkill(@, skill)]
  /\ call' = Call("removeActiveSkill", self, <<skill>>, NULL)
  /\ UNCHANGED <<gmm, chars, parties, inv, pending>>

MoveLeft(self, vx) ==
  /\ Running
  /\ PendingCount(pending, "startRunning", self) < MaxPending
  /\ Becomes(moveLeft(Now, self, vx))
  /\ call' = Call("moveLeft", self, <<vx>>, NULL)
  /\ UNCHANGED <<gmm, chars, parties>>

MoveRight(self, vx) ==
  /\ Running
  /\ PendingCount(pending, "startRunning", self) < MaxPending
  /\ Becomes(moveRight(Now, self, vx))
  /\ call' = Call("moveRight", self, <<vx>>, NULL)
  /\ UNCHANGED <<gmm, chars, parties>>

Crouch(self) ==
  /\ Running
  /\ chr[self].fixturesCreated + 2 <= MaxFixtures
  /\ Becomes(crouch(Now, self))
  /\ call' = Call("crouch", self, <<>>, NULL)
  /\ UNCHANGED <<gmm, chars, parties>>

GetUpFromCrouching(self) ==
  /\ Running
  /\ chr[self].fixturesCreated + 2 <= MaxFixtures
  /\ Becomes(getUpFromCrouching(Now, self))
  /\ call' = Call("getUpFromCrouching", self, <<>>, NULL)
  /\ UNCHANGED <<gmm, chars, parties>>

RedefineBodyFixture(self) ==
  /\ Running
  /\ chr[self].fixturesCreated < MaxFixtures
  /\ chr' = [chr EXCEPT ![self] = redefineBodyFixture(@)]
  /\ call' = Call("redefineBodyFixture", self, <<>>, NULL)
  /\ UNCHANGED <<gmm, chars, parties, inv, pending>>

RedefineFeetFixture(self) ==
  /\ Running
  /\ chr[self].fixturesCreated < MaxFixtures
  /\ chr' = [chr EXCEPT ![self] = redefineFeetFixture(@)]
  /\ call' = Call("redefineFeetFixture", self, <<>>, NULL)
  /\ UNCHANGED <<gmm, chars, parties, inv, pending>>

RedefineWeaponFixture(self) ==
  /\ Running
  /\ chr[self].fixturesCreated < MaxFixtures
  /\ chr' = [chr EXCEPT ![self] = redefineWeaponFixture(@)]
  /\ call' = Call("redefineWeaponFixture", self, <<>>, NULL)
  /\ UNCHANGED <<gmm, chars, parties, inv, pending>>

RemoveFromMap(self) ==
  /\ Running
  /\ LET W == removeFromMap(Now, self)
     IN Becomes(W) /\ call' = Call("removeFromMap", self, <<>>, W.ret)
  /\ UNCHANGED <<gmm, chars, parties>>

JumpDown(self) ==
  /\ Running
  /\ PendingCount(pending, "jumpDown", self) = 0
  /\ Becomes(jumpDown(Now, self))
  /\ call' = Call("jumpDown", self, <<>>, NULL)
  /\ UNCHANGED <<gmm, chars, parties>>

\* a use of freed memory is undefined: the process may go on as if the memory
\* were still valid, or it may end
SegFault(self) ==
  /\ Running
  /\ chr[self].danglingAccess
  /\ chr' = [chr EXCEPT ![self].crashed = TRUE]
  /\ call' = Call("crash", self, <<>>, NULL)
  /\ UNCHANGED <<gmm, chars, parties, inv, pending>>

\* CallbackManager runs a due callback
RunCallback(cb, rand) ==
  /\ Running
  /\ cb \in BagToSet(pending) /\ cb.left = 0
  /\ LET W0 == [Now EXCEPT !.pending = @ (-) SetToBag({cb})]
         W == runCallback(W0, cb, rand)
     IN /\ cb.kind = "hit" /\ W0.chr[cb.self].lockedOnTarget # NULL =>
             /\ W.chr[W0.chr[cb.self].lockedOnTarget].health <= HealthCap
             /\ PendingCount(W.pending, "takingDamage",
                             W0.chr[cb.self].lockedOnTarget) <= MaxPending
        /\ Becomes(W)
        /\ call' = Call("callback", cb.self, <<cb.kind>>, NULL)
  /\ UNCHANGED <<gmm, chars, parties>>

\* 0.05 s pass: allowed while no pending callback is due
Tick ==
  /\ Running
  /\ pending # EmptyBag
  /\ \A cb \in BagToSet(pending) : cb.left > 0
  /\ pending' = [cb \in {[x EXCEPT !.left = @ - 1] : x \in BagToSet(pending)} |->
                   pending[[cb EXCEPT !.left = @ + 1]]]
  /\ call' = Call("tick", NULL, <<>>, NULL)
  /\ UNCHANGED <<gmm, chars, parties, chr, inv>>

(***************************************************************************)
(* GameMapManager.  loadGameMap starts a worker thread whose steps         *)
(* interleave with the game thread; gmm.worker is the line of the worker   *)
(* lambda the thread is about to execute.                                  *)
(***************************************************************************)
\* the tiled maps and the portal ids the portal lock store is explored with
PortalMaps == {"map0", "map1"}
MaxPortalId == 2
PortalIds == 1..MaxPortalId

\* _allPortalStates after construction: no tiled map has a vector
NoPortalStates == [m \in {} |-> <<>>]

\* the index of the first entry of a vector with the portal id, 0 if none
FindPortalEntry(vec, targetPortalId) ==
  LET found == {i \in DOMAIN vec : vec[i].first = targetPortalId}
  IN IF found = {} THEN 0
     ELSE CHOOSE i \in found : \A k \in found : i <= k

hasSavedPortalLockUnlockState(A, tmxMapFileName, targetPortalId) ==
  IF tmxMapFileName \notin DOMAIN A THEN FALSE
  ELSE FindPortalEntry(A[tmxMapFileName], targetPortalId) # 0

isPortalLocked(A, tmxMapFileName, targetPortalId) ==
  IF tmxMapFileName \notin DOMAIN A THEN FALSE
  ELSE LET i == FindPortalEntry(A[tmxMapFileName], targetPortalId)
       IN IF i # 0 THEN A[tmxMapFileName][i].second ELSE FALSE

\* a plausible slip: the entry is appended without a search for an existing
\* one
setPortalLockedAlwaysAppends(A, tmxMapFileName, targetPortalId, locked) ==
  LET entry == [first |-> targetPortalId, second |-> locked]
  IN IF tmxMapFileName \notin DOMAIN A
     THEN (tmxMapFileName :> <<entry>>) @@ A
     ELSE [A EXCEPT ![tmxMapFileName] = Append(@, entry)]

setPortalLocked(A, tmxMapFileName, targetPortalId, locked) ==
  LET entry == [first |-> targetPortalId, second |-> locked]
  IN IF tmxMapFileName \notin DOMAIN A
     THEN (tmxMapFileName :> <<entry>>) @@ A
     ELSE LET i == FindPortalEntry(A[tmxMapFileName], targetPortalId)
          IN IF i # 0
             THEN [A EXCEPT ![tmxMapFileName][i].second = locked]
             ELSE [A EXCEPT ![tmxMapFileName] = Append(@, entry)]

\* the fields after GameMapManager::GameMapManager and the first map load
NewGameMapManager ==
  [ areNpcsAllowedToAct |-> TRUE,
    gameMap             |-> "map0",
    worker              |-> "none",   \* none, pause, spin, swap, resume
    loading             |-> NULL,     \* tmxMapFileName captured by the worker lambda
    shadeAction         |-> NULL,     \* the map the shade's queued CallFunc loads
    loads               |-> 0,        \* history: loadGameMap calls so far
    droppedItems        |-> EmptyBag, \* the item stacks createItem put on the map
    allPortalStates     |-> NoPortalStates ]

\* loadGameMap: the shade fades in, then the worker thread is started
LoadGameMap(tmxMapFileName) ==
  /\ Running
  /\ gmm.worker = "none" /\ gmm.shadeAction = NULL
  /\ gmm.loads < MaxLoads
  /\ gmm' = [gmm EXCEPT !.worker = "pause", !.loading = tmxMapFileName,
                        !.loads = @ + 1]
  /\ call' = Call("loadGameMap", NULL, <<tmxMapFileName>>, NULL)
  /\ UNCHANGED <<chars, parties, chr, inv, pending>>

\* worker: setNpcsAllowedToAct(false)
WorkerPause ==
  /\ gmm.worker = "pause"
  /\ gmm' = [gmm EXCEPT !.areNpcsAllowedToAct = FALSE, !.worker = "spin"]
  /\ call' = Call("setNpcsAllowedToAct", NULL, <<FALSE>>, NULL)
  /\ UNCHANGED <<chars, parties, chr, inv, pending>>

\* worker: while (CallbackManager::the().getPendingCount() > 0); falls through
WorkerSpinExit ==
  /\ gmm.worker = "spin"
  /\ pending = EmptyBag
  /\ gmm' = [gmm EXCEPT !.worker = "swap"]
  /\ call' = Call("getPendingCount", NULL, <<>>, 0)
  /\ UNCHANGED <<chars, parties, chr, inv, pending>>

\* worker: the CallFunc that calls doLoadGameMap is queued on the shade
WorkerQueueSwap ==
  /\ gmm.worker = "swap"
  /\ gmm' = [gmm EXCEPT !.shadeAction = gmm.loading, !.worker = "resume"]
  /\ call' = Call("runAction", NULL, <<gmm.loading>>, NULL)
  /\ UNCHANGED <<chars, parties, chr, inv, pending>>

\* worker: setNpcsAllowedToAct(true), the last statement of the lambda
WorkerResume ==
  /\ gmm.worker = "resume"
  /\ gmm' = [gmm EXCEPT !.areNpcsAllowedToAct = TRUE, !.worker = "none"]
  /\ call' = Call("setNpcsAllowedToAct", NULL, <<TRUE>>, NULL)
  /\ UNCHANGED <<chars, parties, chr, inv, pending>>

\* game thread: the shade runs the queued CallFunc, which calls doLoadGameMap
DoLoadGameMap ==
  /\ Running
  /\ gmm.shadeAction # NULL
  /\ gmm' = [gmm EXCEPT !.gameMap = gmm.shadeAction, !.shadeAction = NULL]
  /\ call' = Call("doLoadGameMap", NULL, <<gmm.shadeAction>>, NULL)
  /\ UNCHANGED <<chars, parties, chr, inv, pending>>

\* game thread: an NPC that reads the flag as set acts, here by jumping.
\* _areNpcsAllowedToAct is a plain bool: a read that races with the worker's
\* writes may return either value
NpcAct(self) ==
  /\ Running
  /\ ~chr[self].isPlayer
  /\ \E seen \in (IF gmm.worker = "none" THEN {gmm.areNpcsAllowedToAct}
                   ELSE BOOLEAN) :
       /\ seen
       /\ Becomes(jump(Now, self))
  /\ call' = Call("act", self, <<>>, NULL)
  /\ UNCHANGED <<gmm, chars, parties>>

SetPortalLocked(tmxMapFileName, targetPortalId, locked) ==
  /\ Running
  /\ gmm' = [gmm EXCEPT !.allPortalStates =
                setPortalLocked(@, tmxMapFileName, targetPortalId, locked)]
  /\ call' = Call("setPortalLocked", NULL,
                  <<tmxMapFileName, targetPortalId, locked>>, NULL)
  /\ UNCHANGED <<chars, parties, chr, inv, pending>>

IsPortalLocked(tmxMapFileName, targetPortalId) ==
  /\ Running
  /\ call' = Call("isPortalLocked", NULL, <<tmxMapFileName, targetPortalId>>,
                  isPortalLocked(gmm.allPortalStates, tmxMapFileName,
                                 targetPortalId))
  /\ UNCHANGED <<gmm, chars, parties, chr, inv, pending>>

HasSavedPortalLockUnlockState(tmxMapFileName, targetPortalId) ==
  /\ Running
  /\ call' = Call("hasSavedPortalLockUnlockState", NULL,
                  <<tmxMapFileName, targetPortalId>>,
                  hasSavedPortalLockUnlockState(gmm.allPortalStates,
                                                tmxMapFileName, targetPortalId))
  /\ UNCHANGED <<gmm, chars, parties, chr, inv, pending>>

(***************************************************************************)
(* Specifications.                                                         *)
(***************************************************************************)
NoParties == [p \in PartyIds |-> [leader |-> NULL, members |-> {}]]

InitCall == Call("init", NULL, <<>>, NULL)

\* SpecInv: one character and its inventory operations
InitInv ==
  /\ chars = {"c1"}
  /\ parties = NoParties
  /\ chr = [c \in {"c1"} |-> NewCharacter(c = "c1", FullHealth, NULL, 0)]
  /\ inv = [c \in {"c1"} |-> EmptyInventory]
  /\ pending = EmptyBag
  /\ call = InitCall
  /\ gmm = NewGameMapManager

NextInv ==
  \E c \in chars :
     \/ \E j \in Items, n \in 1..MaxAddAmount : AddItem(c, j, n)
     \/ \E o \in ItemObjs, n \in 1..MaxAmount : RemoveItem(c, o, n)
     \/ \E e \in ItemObjs : Equip(c, e)
     \/ \E t \in EquipTypes : Unequip(c, t)

SpecInv == InitInv /\ [][NextInv]_vars

\* SpecBag: one character that adds, removes, equips, unequips, uses and
\* discards items, owned or not
InitBag ==
  /\ chars = {"c1"}
  /\ parties = NoParties
  /\ chr = [c \in {"c1"} |-> NewCharacter(TRUE, FullHealth, NULL, 0)]
  /\ inv = [c \in {"c1"} |-> EmptyInventory]
  /\ pending = EmptyBag
  /\ call = InitCall
  /\ gmm = NewGameMapManager

\* the instance a caller names for an item: the one the character owns, or
\* else a new one
NamedItem(c, json) ==
  IF inv[c].itemMapper[json] # NoItem THEN inv[c].itemMapper[json]
  ELSE FreshItem(inv[c], json)

\* the items of SpecBag: a consumable and an equipment
BagItems == {"potion", "sword"}

NextBag ==
  \/ \E j \in BagItems, n \in 1..MaxAddAmount : AddItem("c1", j, n)
  \/ \E j \in BagItems, n \in 1..MaxAddAmount :
       RemoveItem("c1", NamedItem("c1", j), n)
  \/ \E e \in ItemObjs : Equip("c1", e)
  \/ \E t \in EquipTypes : Unequip("c1", t)
  \/ \E j \in BagItems : UseItem("c1", NamedItem("c1", j))
  \/ \E j \in BagItems, n \in 1..MaxAddAmount :
       DiscardItem("c1", NamedItem("c1", j), n)

SpecBag == InitBag /\ [][NextBag]_vars


\* the damage getDamageOutput can return for a character
DamageOutputs(self) == {getDamageOutput(Now, self, rand) : rand \in RandDraws}

\* SpecHealth: an attacker c1 and a victim c2 that owns two potions; the
\* victim is damaged, updated each frame, uses its potions and dies
InitHealth ==
  /\ chars = {"c1", "c2"}
  /\ parties = NoParties
  /\ chr = [c \in {"c1", "c2"} |-> NewCharacter(c = "c1", FullHealth, NULL, 0)]
  /\ inv = [c \in {"c1", "c2"} |->
              IF c = "c2"
              THEN addItem(EmptyInventory, [json |-> "potion", ser |-> 1], 2)
              ELSE EmptyInventory]
  /\ pending = EmptyBag
  /\ call = InitCall
  /\ gmm = NewGameMapManager

NextHealth ==
  \/ \E d \in DamageOutputs("c1") : InflictDamage("c1", "c2", d)
  \/ \E delta \in 1..MaxDelta : Update("c2", delta, 0, 0)
  \/ \E o \in ItemObjs : UseItem("c2", o)
  \/ KilledAnimationDone("c2")
  \/ SegFault("c2")
  \/ \E cb \in BagToSet(pending) : RunCallback(cb, 0)
  \/ Tick

SpecHealth == InitHealth /\ [][NextHealth]_vars

\* SpecCombat: three characters in every party configuration, that track either
\* nobody or everybody else and damage one another
PartyConfigs ==
  { [p \in PartyIds |-> [leader |-> NULL, members |-> {}]],
    [p \in PartyIds |-> IF p = "p1" THEN [leader |-> "c1", members |-> {"c2"}]
                        ELSE [leader |-> NULL, members |-> {}]],
    [p \in PartyIds |-> IF p = "p1" THEN [leader |-> "c1", members |-> {"c2"}]
                        ELSE [leader |-> "c3", members |-> {}]],
    [p \in PartyIds |-> IF p = "p1" THEN [leader |-> "c1", members |-> {"c2", "c3"}]
                        ELSE [leader |-> NULL, members |-> {}]] }

\* Character::_party under a party configuration
PartyOf(P, c) ==
  IF \E p \in PartyIds : c = P[p].leader \/ c \in P[p].members
  THEN CHOOSE p \in PartyIds : c = P[p].leader \/ c \in P[p].members
  ELSE NULL

\* the damage of the combat scenarios: a lethal blow (health 10, damage 15)
CombatDamages == {15}

InitCombat ==
  /\ chars = CharIds
  /\ parties \in PartyConfigs
  /\ \E tracking \in {{}, CharIds}, invincible \in {{}, {"c2"}} :
       chr = [c \in CharIds |->
                [NewCharacter(c = "c1", FullHealth, PartyOf(parties, c), 0)
                   EXCEPT !.inRangeTargets =
                            IF c \in tracking THEN CharIds \ {c} ELSE {},
                          !.isInvincible = c \in invincible]]
  /\ inv = [c \in CharIds |-> EmptyInventory]
  /\ pending = EmptyBag
  /\ call = InitCall
  /\ gmm = NewGameMapManager

NextCombat ==
  \E self \in chars : \E target \in chars \ {self} :
     \/ \E d \in CombatDamages : InflictDamage(self, target, d)
     \/ \E d \in CombatDamages : ReceiveDamage(target, self, d)

SpecCombat == InitCombat /\ [][NextCombat]_vars


\* SpecState: determineState() evaluated for every combination of the flags
\* it reads, with and without a weapon, with and without an overriding attack
\* state, at velocities on both sides of its thresholds
FlagNames ==
  { "isSetToKill", "isGettingUpFromFalling", "isAttacking", "isDodgingBackward",
    "isDodgingForward", "isJumping", "isCrouching", "isStartRunning",
    "isStopRunning" }

Sword1 == [json |-> "sword", ser |-> 1]

\* the inventory after addItem(sword, 1) and equip(sword)
ArmedInventory == equip(addItem(EmptyInventory, Sword1, 1), Sword1)

InitState ==
  /\ chars = {"c1"}
  /\ parties = NoParties
  /\ \E on \in SUBSET FlagNames, override \in {NULL, "ATTACKING_UPWARD"} :
       chr = [c \in {"c1"} |->
                [NewCharacter(TRUE, FullHealth, NULL, 0)
                   EXCEPT !.isSetToKill = "isSetToKill" \in on,
                          !.isGettingUpFromFalling = "isGettingUpFromFalling" \in on,
                          !.isAttacking = "isAttacking" \in on,
                          !.isDodgingBackward = "isDodgingBackward" \in on,
                          !.isDodgingForward = "isDodgingForward" \in on,
                          !.isJumping = "isJumping" \in on,
                          !.isCrouching = "isCrouching" \in on,
                          !.isStartRunning = "isStartRunning" \in on,
                          !.isStopRunning = "isStopRunning" \in on,
                          !.overridingAttackState = override]]
  /\ inv \in {[c \in {"c1"} |-> EmptyInventory], [c \in {"c1"} |-> ArmedInventory]}
  /\ pending = EmptyBag
  /\ call = InitCall
  /\ gmm = NewGameMapManager

NextState ==
  \E vx \in {-11, 0, 10, 11}, vy \in {-2501, -2500} : DetermineState("c1", vx, vy)

SpecState == InitState /\ [][NextState]_vars

\* SpecAnim: one character, armed or not, with 0 .. MaxExtraAttackAnimations
\* extra attack animations, that attacks, falls and is updated
InitAnim ==
  /\ chars = {"c1"}
  /\ parties = NoParties
  /\ \E extra \in 0..MaxExtraAttackAnimations :
       chr = [c \in {"c1"} |-> NewCharacter(TRUE, FullHealth, NULL, extra)]
  /\ inv \in {[c \in {"c1"} |-> EmptyInventory], [c \in {"c1"} |-> ArmedInventory]}
  /\ pending = EmptyBag
  /\ call = InitCall
  /\ gmm = NewGameMapManager

NextAnim ==
  \/ \E s \in {"ATTACKING", "ATTACKING_UPWARD"} : Attack("c1", s, 1, 1)
  \/ Update("c1", RegenPeriod, 0, 0)
  \/ \E vy \in {-4501, 0} : OnFallToGroundOrPlatform("c1", vy)
  \/ \E cb \in BagToSet(pending) : RunCallback(cb, 0)
  \/ Tick

SpecAnim == InitAnim /\ [][NextAnim]_vars

\* Spec: the player c1, unarmed, attacks with c2 in range or not, invincible
\* or not; c1 falls, is updated, and its delayed hits land on c2
Init ==
  /\ chars = {"c1", "c2"}
  /\ parties = NoParties
  /\ \E inRange \in {{}, {"c2"}}, invincible \in BOOLEAN :
       chr = [c \in {"c1", "c2"} |->
                [NewCharacter(c = "c1", FullHealth, NULL, 0)
                   EXCEPT !.inRangeTargets = IF c = "c1" THEN inRange ELSE {},
                          !.isInvincible = (c = "c2" /\ invincible)]]
  /\ inv = [c \in {"c1", "c2"} |-> EmptyInventory]
  /\ pending = EmptyBag
  /\ call = InitCall
  /\ gmm = NewGameMapManager

Next ==
  \/ \E s \in {"ATTACKING", "ATTACKING_UPWARD", "IDLE"}, n \in 1..MaxHits :
       Attack("c1", s, n, 1)
  \/ Update("c1", RegenPeriod, 0, 0)
  \/ \E vy \in {-4501, 0} : OnFallToGroundOrPlatform("c1", vy)
  \/ \E cb \in BagToSet(pending) : RunCallback(cb, 0)
  \/ Tick

Spec == Init /\ [][Next]_vars

\* SpecMove: one character, with or without double jump, that jumps, lands,
\* dodges and is updated
InitMove ==
  /\ chars = {"c1"}
  /\ parties = NoParties
  /\ \E canDoubleJump \in BOOLEAN :
       chr = [c \in {"c1"} |->
                [NewCharacter(TRUE, FullHealth, NULL, 0)
                   EXCEPT !.canDoubleJump = canDoubleJump]]
  /\ inv = [c \in {"c1"} |-> EmptyInventory]
  /\ pending = EmptyBag
  /\ call = InitCall
  /\ gmm = NewGameMapManager

NextMove ==
  \/ Jump("c1")
  \/ Land("c1", 0)
  \/ DodgeBackward("c1")
  \/ DodgeForward("c1")
  \/ Update("c1", RegenPeriod, 0, 0)
  \/ \E cb \in BagToSet(pending) : RunCallback(cb, 0)
  \/ Tick

SpecMove == InitMove /\ [][NextMove]_vars

\* SpecMap: the player c1 and the NPC c2 jump and land while maps are loaded
InitMap ==
  /\ chars = {"c1", "c2"}
  /\ parties = NoParties
  /\ chr = [c \in {"c1", "c2"} |-> NewCharacter(c = "c1", FullHealth, NULL, 0)]
  /\ inv = [c \in {"c1", "c2"} |-> EmptyInventory]
  /\ pending = EmptyBag
  /\ call = InitCall
  /\ gmm = NewGameMapManager

NextMap ==
  \/ \E tmxMapFileName \in {"map1", "map2"} : LoadGameMap(tmxMapFileName)
  \/ WorkerPause
  \/ WorkerSpinExit
  \/ WorkerQueueSwap
  \/ WorkerResume
  \/ DoLoadGameMap
  \/ Jump("c1")
  \/ NpcAct("c2")
  \/ \E c \in {"c1", "c2"} : Land(c, 0)
  \/ \E cb \in BagToSet(pending) : RunCallback(cb, 0)
  \/ Tick

SpecMap == InitMap /\ [][NextMap]_vars

\* SpecLoad: maps are loaded while the player jumps, lands and dodges.  Every
\* due callback fires, time passes, the worker thread and the shade's queued
\* action keep running, and the worker's busy-wait leaves its loop if it finds
\* the pending count at zero again and again
InitLoad ==
  /\ chars = {"c1"}
  /\ parties = NoParties
  /\ chr = [c \in {"c1"} |-> NewCharacter(TRUE, FullHealth, NULL, 0)]
  /\ inv = [c \in {"c1"} |-> EmptyInventory]
  /\ pending = EmptyBag
  /\ call = InitCall
  /\ gmm = NewGameMapManager

NextLoad ==
  \/ \E tmxMapFileName \in {"map1", "map2"} : LoadGameMap(tmxMapFileName)
  \/ WorkerPause
  \/ WorkerSpinExit
  \/ WorkerQueueSwap
  \/ WorkerResume
  \/ DoLoadGameMap
  \/ Jump("c1")
  \/ Land("c1", 0)
  \/ DodgeForward("c1")
  \/ \E cb \in BagToSet(pending) : RunCallback(cb, 0)
  \/ Tick

SpecLoad ==
  /\ InitLoad /\ [][NextLoad]_vars
  /\ WF_vars(WorkerPause)
  /\ SF_vars(WorkerSpinExit)
  /\ WF_vars(WorkerQueueSwap)
  /\ WF_vars(WorkerResume)
  /\ WF_vars(DoLoadGameMap)
  /\ WF_vars(\E cb \in BagToSet(pending) : RunCallback(cb, 0))
  /\ WF_vars(Tick)

\* SpecKill: c1, with or without double jump, is killed by c2 while it jumps,
\* dodges, attacks and uses skills.  update keeps being called, timers keep
\* running out, and an animation that keeps being started eventually completes
InitKill ==
  /\ chars = {"c1", "c2"}
  /\ parties = NoParties
  /\ \E canDoubleJump \in BOOLEAN :
       chr = [c \in {"c1", "c2"} |->
                [NewCharacter(c = "c1", FullHealth, NULL, 0)
                   EXCEPT !.canDoubleJump = canDoubleJump]]
  /\ inv = [c \in {"c1", "c2"} |-> EmptyInventory]
  /\ pending = EmptyBag
  /\ call = InitCall
  /\ gmm = NewGameMapManager

\* c1 is hit once; from then on it starts a new operation when no callback is
\* pending, and calls activateSkill until a skill was activated
NextKill ==
  \/ ~chr["c1"].isSetToKill /\ ReceiveDamage("c1", "c2", FullHealth)
  \/ Update("c1", RegenPeriod, 0, 0)
  \/ KilledAnimationDone("c1")
  \/ chr["c1"].isSetToKill /\ pending = EmptyBag /\ Jump("c1")
  \/ chr["c1"].isSetToKill /\ pending = EmptyBag /\ DodgeForward("c1")
  \/ chr["c1"].isSetToKill /\ pending = EmptyBag /\ Attack("c1", "ATTACKING", 1, 1)
  \/ \E canActivate \in BOOLEAN, hasFrames \in BOOLEAN :
       /\ chr["c1"].isSetToKill /\ pending = EmptyBag
       /\ chr["c1"].skillActivations = 0
       /\ \E skill \in LearnedSkills("c1") :
            ActivateSkill("c1", skill, canActivate, hasFrames)
  \/ \E cb \in BagToSet(pending) : RunCallback(cb, 0)
  \/ Tick
  \/ SegFault("c1")

SpecKill ==
  /\ InitKill /\ [][NextKill]_vars
  /\ WF_vars(Update("c1", RegenPeriod, 0, 0))
  /\ SF_vars(KilledAnimationDone("c1"))
  /\ WF_vars(\E cb \in BagToSet(pending) : RunCallback(cb, 0))
  /\ WF_vars(Tick)

\* SpecBody: the player c2 attacks c1, a weak character that stands on a
\* platform or not; c1 dodges and jumps down while it has a body, is updated,
\* dies and is removed from the map
InitBody ==
  /\ chars = {"c1", "c2"}
  /\ parties = NoParties
  /\ \E isOnPlatform \in BOOLEAN :
       chr = [c \in {"c1", "c2"} |->
                IF c = "c1"
                THEN [NewCharacter(FALSE, BaseMeleeDamage, NULL, 0)
                        EXCEPT !.fullHealth = BaseMeleeDamage,
                               !.isOnPlatform = isOnPlatform]
                ELSE [NewCharacter(TRUE, FullHealth, NULL, 0)
                        EXCEPT !.inRangeTargets = {"c1"}]]
  /\ inv = [c \in {"c1", "c2"} |-> EmptyInventory]
  /\ pending = EmptyBag
  /\ call = InitCall
  /\ gmm = NewGameMapManager

NextBody ==
  \/ \E n \in 1..MaxHits : Attack("c2", "ATTACKING", n, 2)
  \/ Update("c1", RegenPeriod, 0, 0)
  \/ KilledAnimationDone("c1")
  \/ RemoveFromMap("c1")
  \/ ~chr["c1"].bodyDestroyed /\ BagCardinality(pending) < MaxPending
       /\ DodgeForward("c1")
  \/ ~chr["c1"].bodyDestroyed /\ BagCardinality(pending) < MaxPending
       /\ JumpDown("c1")
  \/ \E cb \in BagToSet(pending) : RunCallback(cb, 0)
  \/ Tick
  \/ SegFault("c1")

SpecBody == InitBody /\ [][NextBody]_vars

\* SpecHit: the player c1 and the NPC c2 attack one another with delayed
\* hits; while hits are pending the NPC c3, in c1's party or in none, kills
\* c2, is touched by the dying c2, and damages c1, which locks c1 on c3 and
\* can kill c1
HitPartyConfigs ==
  { NoParties,
    [p \in PartyIds |-> IF p = "p1" THEN [leader |-> "c1", members |-> {"c3"}]
                        ELSE [leader |-> NULL, members |-> {}]] }

\* the health c1 and c2 start with: two hits kill
HitHealth == 2 * BaseMeleeDamage

InitHit ==
  /\ chars = CharIds
  /\ parties \in HitPartyConfigs
  /\ \E invincible \in BOOLEAN :
       chr = [c \in CharIds |->
                [NewCharacter(c = "c1", IF c = "c3" THEN FullHealth ELSE HitHealth,
                              PartyOf(parties, c), 0)
                   EXCEPT !.inRangeTargets = CASE c = "c1" -> {"c2"}
                                               [] c = "c2" -> {"c1"}
                                               [] OTHER -> {},
                          !.isInvincible = (c = "c2" /\ invincible)]]
  /\ inv = [c \in CharIds |-> EmptyInventory]
  /\ pending = EmptyBag
  /\ call = InitCall
  /\ gmm = NewGameMapManager

\* some delayed hit is pending
HitPending == \E cb \in BagToSet(pending) : cb.kind = "hit"

NextHit ==
  \/ /\ pending = EmptyBag
     /\ \/ \E n \in 1..MaxHits, interval \in 0..MaxHitInterval :
             Attack("c1", "ATTACKING", n, interval)
        \/ \E n \in 1..MaxHits, interval \in 0..MaxHitInterval :
             Attack("c2", "ATTACKING", n, interval)
  \/ /\ HitPending
     /\ \/ ~chr["c2"].isSetToKill /\ ReceiveDamage("c2", "c3", FullHealth)
        \/ /\ chr["c2"].isSetToKill /\ ~chr["c3"].isSetToKill
           /\ ReceiveDamage("c3", "c2", FullHealth)
        \/ /\ ~chr["c1"].isSetToKill
           /\ \E d \in {BaseMeleeDamage, FullHealth} :
                /\ d = BaseMeleeDamage => chr["c1"].health = HitHealth
                /\ InflictDamage("c3", "c1", d)
  \/ \E cb \in BagToSet(pending) : RunCallback(cb, 0)
  \/ Tick

SpecHit == InitHit /\ [][NextHit]_vars

\* SpecSkill: one character that activates skills, with or without frames of
\* their own, is updated while standing still, and is killed by c2 before,
\* during or after a skill
InitSkill ==
  /\ chars = {"c1", "c2"}
  /\ parties = NoParties
  /\ chr = [c \in {"c1", "c2"} |-> NewCharacter(c = "c1", FullHealth, NULL, 0)]
  /\ inv = [c \in {"c1", "c2"} |-> EmptyInventory]
  /\ pending = EmptyBag
  /\ call = InitCall
  /\ gmm = NewGameMapManager

NextSkill ==
  \/ \E skill \in LearnedSkills("c1"), canActivate \in BOOLEAN, hasFrames \in BOOLEAN :
       ActivateSkill("c1", skill, canActivate, hasFrames)
  \/ Update("c1", RegenPeriod, 0, 0)
  \/ ~chr["c1"].isSetToKill /\ ReceiveDamage("c1", "c2", FullHealth)
  \/ KilledAnimationDone("c1")
  \/ \E cb \in BagToSet(pending) : RunCallback(cb, 0)
  \/ Tick

SpecSkill == InitSkill /\ [][NextSkill]_vars

\* SpecSkillBook: one character that learns and forgets skills, activates
\* the skills it has learned and drops active skills
InitSkillBook ==
  /\ chars = {"c1"}
  /\ parties = NoParties
  /\ chr = [c \in {"c1"} |-> NewCharacter(TRUE, FullHealth, NULL, 0)]
  /\ inv = [c \in {"c1"} |-> EmptyInventory]
  /\ pending = EmptyBag
  /\ call = InitCall
  /\ gmm = NewGameMapManager

NextSkillBook ==
  \/ \E name \in SkillNames : AddSkill("c1", name)
  \/ \E skill \in LearnedSkills("c1") : RemoveSkill("c1", skill)
  \/ \E skill \in LearnedSkills("c1"), canActivate \in BOOLEAN :
       ActivateSkill("c1", skill, canActivate, TRUE)
  \/ \E skill \in LearnedSkills("c1") \cup chr["c1"].skills.activeSkills :
       RemoveActiveSkill("c1", skill)
  \/ \E cb \in BagToSet(pending) : RunCallback(cb, 0)
  \/ Tick

SpecSkillBook == InitSkillBook /\ [][NextSkillBook]_vars

\* SpecPortal: portals of two tiled maps are locked, unlocked and queried
InitPortal ==
  /\ chars = {"c1"}
  /\ parties = NoParties
  /\ chr = [c \in {"c1"} |-> NewCharacter(TRUE, FullHealth, NULL, 0)]
  /\ inv = [c \in {"c1"} |-> EmptyInventory]
  /\ pending = EmptyBag
  /\ call = InitCall
  /\ gmm = NewGameMapManager

NextPortal ==
  \E tmxMapFileName \in PortalMaps, targetPortalId \in PortalIds :
     \/ \E locked \in BOOLEAN :
          SetPortalLocked(tmxMapFileName, targetPortalId, locked)
     \/ IsPortalLocked(tmxMapFileName, targetPortalId)
     \/ HasSavedPortalLockUnlockState(tmxMapFileName, targetPortalId)

SpecPortal == InitPortal /\ [][NextPortal]_vars

\* SpecCrouch: one character that crouches, gets up, jumps, lands and is
\* updated
InitCrouch ==
  /\ chars = {"c1"}
  /\ parties = NoParties
  /\ chr = [c \in {"c1"} |-> NewCharacter(TRUE, FullHealth, NULL, 0)]
  /\ inv = [c \in {"c1"} |-> EmptyInventory]
  /\ pending = EmptyBag
  /\ call = InitCall
  /\ gmm = NewGameMapManager

NextCrouch ==
  \/ Crouch("c1")
  \/ GetUpFromCrouching("c1")
  \/ Jump("c1")
  \/ Land("c1", 0)
  \/ Update("c1", RegenPeriod, 0, 0)
  \/ \E cb \in BagToSet(pending) : RunCallback(cb, 0)
  \/ Tick

SpecCrouch == InitCrouch /\ [][NextCrouch]_vars

\* SpecRun: one character that moves left and right, at rest or faster than
\* twice its move speed, crouches, gets up, falls hard and is updated
MoveVelocities == {-(2 * MoveSpeed) - 1, 0, 2 * MoveSpeed + 1}

InitRun ==
  /\ chars = {"c1"}
  /\ parties = NoParties
  /\ chr = [c \in {"c1"} |-> NewCharacter(TRUE, FullHealth, NULL, 0)]
  /\ inv = [c \in {"c1"} |-> EmptyInventory]
  /\ pending = EmptyBag
  /\ call = InitCall
  /\ gmm = NewGameMapManager

NextRun ==
  \/ \E vx \in MoveVelocities : MoveLeft("c1", vx)
  \/ \E vx \in MoveVelocities : MoveRight("c1", vx)
  \/ Crouch("c1")
  \/ GetUpFromCrouching("c1")
  \/ OnFallToGroundOrPlatform("c1", -4501)
  \/ Update("c1", RegenPeriod, 0, 0)
  \/ \E cb \in BagToSet(pending) : RunCallback(cb, 0)
  \/ Tick

SpecRun == InitRun /\ [][NextRun]_vars

\* SpecFixture: a character whose body defineBody has just built, and whose
\* fixtures are then redefined in any order
InitFixture ==
  /\ chars = {"c1"}
  /\ parties = NoParties
  /\ chr = [c \in {"c1"} |->
              defineBody([NewCharacter(TRUE, FullHealth, NULL, 0)
                            EXCEPT !.fixtures = [k \in FixtureTypes |-> NoFixture],
                                   !.bodyFixtureList = {},
                                   !.fixturesCreated = 0])]
  /\ inv = [c \in {"c1"} |-> EmptyInventory]
  /\ pending = EmptyBag
  /\ call = InitCall
  /\ gmm = NewGameMapManager

NextFixture ==
  \/ RedefineBodyFixture("c1")
  \/ RedefineFeetFixture("c1")
  \/ RedefineWeaponFixture("c1")
  \/ SegFault("c1")

SpecFixture == InitFixture /\ [][NextFixture]_vars

(***************************************************************************)
(* Claims about the inventory / equipment subsystem (checked under         *)
(* SpecInv).                                                               *)
(***************************************************************************)
\* the instances of an identifier the character refers to anywhere
InstancesOf(I, json) ==
  {o \in ItemObjs : /\ o.json = json
                    /\ \/ I.itemMapper[json] = o
                       \/ \E t \in ItemTypes : o \in I.inventory[t]
                       \/ \E t \in EquipTypes : I.equipmentSlots[t] = o}

Indexed(I, o) == \E t \in ItemTypes : o \in I.inventory[t]

Equipped(I, o) == \E t \in EquipTypes : I.equipmentSlots[t] = o

\* C3: after any sequence of addItem / removeItem calls (those equip and
\* unequip make included, no removal exceeding the owned quantity), the
\* character holds at most one instance of an identifier, and its quantity is
\* the sum of the amounts added minus the sum of the amounts removed.
C3_DedupNetQuantity ==
  \A c \in chars :
    ~inv[c].aborted =>
      \A j \in Items :
        /\ Cardinality(InstancesOf(inv[c], j)) <= 1
        /\ getItemAmount(inv[c], j) = inv[c].net[j]

\* add 3, add 2, remove 4: removeItem(potion, 4) has left one instance with 1
C3_Witness ==
  /\ call.op = "removeItem"
  /\ call.args[1].json = "potion" /\ call.args[2] = 4
  /\ inv["c1"].net["potion"] = 1
  /\ getItemAmount(inv["c1"], "potion") = 1
  /\ Indexed(inv["c1"], inv["c1"].itemMapper["potion"])

\* C4 as stated: no instance is at once in an equipment slot and indexed in
\* the inventory.
C4_SlotAndInventoryExclusive ==
  \A c \in chars : \A o \in ItemObjs :
    ~(Equipped(inv[c], o) /\ Indexed(inv[c], o))

\* C4 amended: an instance in an equipment slot is indexed in the inventory
\* exactly when its remaining quantity is at least 1; at quantity 0 (the
\* item was owned once and is equipped) it is in the slot only.
C4_EquippedIndexedIffQuantity ==
  \A c \in chars :
    ~inv[c].aborted =>
      \A o \in ItemObjs :
        Equipped(inv[c], o) => (Indexed(inv[c], o) <=> inv[c].amount[o] >= 1)

\* equip has moved the only unit of an item from the inventory to the slot
C4_Witness ==
  /\ call.op = "equip"
  /\ Equipped(inv["c1"], call.args[1])
  /\ inv["c1"].amount[call.args[1]] = 0
  /\ ~Indexed(inv["c1"], call.args[1])

\* C5: equip(sword) for an owned sword of quantity 1 while the slot holds a
\* dagger: afterwards the slot holds the sword, the dagger is indexed with
\* its quantity one larger, and the sword is not indexed.
C5_EquipSwapsOccupant ==
  [][\A c \in chars : \A sword, dagger \in ItemObjs :
       ( /\ call'.op = "equip" /\ call'.self = c /\ call'.args[1] = sword
         /\ sword # dagger
         /\ inv[c].itemMapper[sword.json] = sword
         /\ inv[c].amount[sword] = 1
         /\ Indexed(inv[c], sword)
         /\ inv[c].equipmentSlots[EquipmentType(sword)] = dagger )
       => ( /\ inv'[c].equipmentSlots[EquipmentType(sword)] = sword
            /\ Indexed(inv'[c], dagger)
            /\ inv'[c].amount[dagger] = inv[c].amount[dagger] + 1
            /\ ~Indexed(inv'[c], sword) )]_vars

\* the sword was equipped over a dagger, which is back in the inventory
C5_Witness ==
  /\ call.op = "equip" /\ call.args[1].json = "sword"
  /\ inv["c1"].equipmentSlots["WEAPON"].json = "sword"
  /\ inv["c1"].amount[inv["c1"].equipmentSlots["WEAPON"]] = 0
  /\ inv["c1"].itemMapper["dagger"] # NoItem
  /\ Indexed(inv["c1"], inv["c1"].itemMapper["dagger"])
  /\ inv["c1"].net["dagger"] = 1

(***************************************************************************)
(* Claims about health (checked under SpecHealth).                         *)
(***************************************************************************)
\* C1: in every reachable state of every character, 0 <= health <= fullHealth.
C1_HealthWithinBounds ==
  \A c \in chars : 0 <= chr[c].health /\ chr[c].health <= chr[c].fullHealth

\* C2: once health is 0 and the set-to-kill flag is set, no later operation
\* makes health greater than 0 or clears the flag.
C2_KillIsIrreversible ==
  [][\A c \in chars :
       (chr[c].isSetToKill /\ chr[c].health = 0)
         => (chr'[c].isSetToKill /\ chr'[c].health <= 0)]_vars

(***************************************************************************)
(* Claims about damage and lock-on (checked under SpecCombat).             *)
(***************************************************************************)
DifferentParties(a, b) ==
  \/ chr[a].party = NULL
  \/ chr[b].party = NULL
  \/ chr[a].party # chr[b].party

\* C6: when inflictDamage(A, B) with non-null B returns, A and B in different
\* parties, every ally of A is locked on B, and B and every ally of B are
\* locked on A, whether or not the damage was applied.
C6_LockOnPropagation ==
  (call.op = "inflictDamage" /\ call.args[1] # NULL
     /\ DifferentParties(call.self, call.args[1]))
  => LET A == call.self
         B == call.args[1]
     IN /\ \A m \in getAllies(parties, chr, A) : chr[m].lockedOnTarget = B
        /\ chr[B].lockedOnTarget = A
        /\ \A m \in getAllies(parties, chr, B) : chr[m].lockedOnTarget = A

\* c3 has hit the invincible member c2 of c1's party: no damage applied, and
\* leader and member are locked on c3
C6_Witness ==
  /\ call.op = "inflictDamage" /\ call.self = "c3" /\ call.args[1] = "c2"
  /\ chr["c2"].isInvincible /\ chr["c2"].health = FullHealth
  /\ getAllies(parties, chr, "c2") = {"c1", "c2"}
  /\ chr["c1"].lockedOnTarget = "c3" /\ chr["c2"].lockedOnTarget = "c3"

\* the character the last damaging call was applied to
DamagedByCall ==
  IF call.op = "receiveDamage" THEN call.self ELSE call.args[1]

\* C7: when receiveDamage takes a non-invincible character's health to zero or
\* below, its health is exactly 0, it is set to kill, and it is in the
\* in-range-target set of no character at all.
C7_DyingLeavesAllInRangeSets ==
  (call.op \in {"receiveDamage", "inflictDamage"} /\ call.ret = TRUE
     /\ ~chr[DamagedByCall].isInvincible /\ chr[DamagedByCall].health <= 0)
  => /\ chr[DamagedByCall].health = 0
     /\ chr[DamagedByCall].isSetToKill
     /\ \A c \in chars : DamagedByCall \notin chr[c].inRangeTargets

(***************************************************************************)
(* Claims about attacks, the state machine and the attack animation        *)
(***************************************************************************)

\* an attack(attackState, ...) call on character c is one the code rejects
AttackRejected(c, attackState) ==
  \/ ~isAttackState(attackState)
  \/ chr[c].isAttacking
  \/ isAttackState(chr[c].currentState)
  \/ chr[c].isGettingUpFromFalling

\* C8: attack(state, numHits, interval) returns false, changes no state and
\* schedules no callback when the state is not an attack variant, or the
\* character is attacking, or its current state is an attack state, or it is
\* getting up from a fall; in every other case it returns true.
C8_AttackRejection ==
  [][call'.op = "attack" =>
       IF AttackRejected(call'.self, call'.args[1])
       THEN call'.ret = FALSE /\ UNCHANGED <<chr, inv, pending>>
       ELSE call'.ret = TRUE]_vars

\* an attack with a valid state was rejected only because the character is
\* getting up from a fall
C8_Witness ==
  /\ call.op = "attack" /\ call.ret = FALSE /\ call.args[1] = "ATTACKING"
  /\ chr[call.self].isGettingUpFromFalling
  /\ ~chr[call.self].isAttacking
  /\ ~isAttackState(chr[call.self].currentState)

\* the priority order of the states, as <<test, state>> pairs; "ATTACK"
\* stands for whichever attack variant applies
StatePriority(ch, vx, vy) ==
  << <<ch.isSetToKill, "KILLED">>,
     <<ch.isGettingUpFromFalling, "FALLING_GETUP">>,
     <<ch.isAttacking, "ATTACK">>,
     <<ch.isDodgingBackward, "DODGING_BACKWARD">>,
     <<ch.isDodgingForward, "DODGING_FORWARD">>,
     <<vy < -2500, "FALLING">>,
     <<ch.isJumping, "JUMPING">>,
     <<ch.isCrouching, "CROUCHING">>,
     <<ch.isStartRunning, "RUNNING_START">>,
     <<ch.isStopRunning, "RUNNING_STOP">>,
     <<vx > 10 \/ vx < -10, "RUNNING">>,
     <<TRUE, "IDLE">> >>

FirstMatch(order) ==
  order[CHOOSE i \in 1..Len(order) :
          order[i][1] /\ \A j \in 1..(i - 1) : ~order[j][1]][2]

\* C9: determineState returns the first state of the priority order KILLED,
\* FALLING_GETUP, attack variant, DODGING_BACKWARD, DODGING_FORWARD, FALLING
\* (vy < -2.5), JUMPING, CROUCHING, RUNNING_START, RUNNING_STOP, RUNNING
\* (|vx| > 0.01), IDLE whose test holds, and evaluating it changes nothing.
C9_DetermineStatePriority ==
  [][call'.op = "determineState" =>
       LET first == FirstMatch(StatePriority(chr[call'.self], call'.args[1],
                                             call'.args[2]))
       IN /\ IF first = "ATTACK" THEN call'.ret \in AttackStates
             ELSE call'.ret = first
          /\ UNCHANGED <<chr, inv, pending>>]_vars

\* a jumping, crouching character that runs and falls faster than 2.5 is FALLING
C9_Witness ==
  /\ call.op = "determineState" /\ call.ret = "FALLING"
  /\ chr[call.self].isJumping /\ chr[call.self].isCrouching
  /\ chr[call.self].isStopRunning /\ call.args[1] = 11

\* C10: the attack animation index stays in [0, 1 + extra attack animations),
\* and after k dispatches of the ATTACKING animation it is k mod (1 + extra):
\* each such dispatch advances it by one, wrapping, and nothing else moves it.
C10_AttackAnimationIdxCycles ==
  \A c \in chars :
    /\ chr[c].attackAnimationIdx \in 0..(chr[c].kAttackAnimationIdxMax - 1)
    /\ chr[c].attackAnimationIdx =
         chr[c].attackDispatches % chr[c].kAttackAnimationIdxMax

\* with one extra animation, the third ATTACKING dispatch has wrapped to 1,
\* and an ATTACKING_UPWARD dispatch in between has not moved the index
C10_Witness ==
  \E c \in chars :
    /\ chr[c].kAttackAnimationIdxMax = 2
    /\ chr[c].attackDispatches = 3
    /\ chr[c].attackAnimationIdx = 1
    /\ chr[c].previousState = "ATTACKING_UPWARD"

(***************************************************************************)
(* Claims about jumps and dodges                                           *)
(***************************************************************************)

\* a jump() call on character c is one the claim says is blocked
JumpBlocked(c) ==
  \/ chr[c].isJumpingDisallowed
  \/ (chr[c].isJumping /\ ~chr[c].canDoubleJump)
  \/ chr[c].isDoubleJumping

\* C11: jump() applies no impulse and changes no state while the 0.2 s jump
\* lock is set, or the character is jumping and cannot double-jump, or it has
\* double-jumped; so at most one jump is accepted between two landings
\* without double-jump and at most two with it.
C11_JumpGating ==
  [][/\ (call'.op = "jump" /\ JumpBlocked(call'.self))
          => UNCHANGED <<chr, inv, pending>>
     /\ \A c \in chars :
          chr'[c].jumpsSinceLanding <= IF chr'[c].canDoubleJump THEN 2 ELSE 1]_vars

\* after a double jump and the release of the jump lock, a third jump() was
\* called and did nothing
C11_Witness ==
  /\ call.op = "jump"
  /\ chr[call.self].canDoubleJump /\ chr[call.self].isDoubleJumping
  /\ chr[call.self].jumpsSinceLanding = 2
  /\ ~chr[call.self].isJumpingDisallowed

\* C12: dodgeForward() or dodgeBackward() called while either dodge flag is
\* set changes nothing (velocity, damping, invincibility, callbacks), so the
\* two dodge flags are never set together.
C12_DodgeExclusive ==
  [][/\ (call'.op \in {"dodgeForward", "dodgeBackward"}
           /\ (chr[call'.self].isDodgingBackward \/ chr[call'.self].isDodgingForward))
          => UNCHANGED <<chr, inv, pending>>
     /\ \A c \in chars :
          ~(chr'[c].isDodgingBackward /\ chr'[c].isDodgingForward)]_vars

\* dodgeForward() was called during a backward dodge
C12_Witness ==
  /\ call.op = "dodgeForward"
  /\ chr[call.self].isDodgingBackward /\ ~chr[call.self].isDodgingForward
  /\ chr[call.self].bodyCommand = "DODGING_BACKWARD"

(***************************************************************************)
(* Claims about map loading                                                *)
(***************************************************************************)

\* C13: when doLoadGameMap, the map swap started by loadGameMap, begins to
\* change the map state, no scheduled callback is pending and the NPCs are
\* still disallowed from acting.
C13_MapSwapQuiesced ==
  call.op = "doLoadGameMap" => pending = EmptyBag /\ ~gmm.areNpcsAllowedToAct

(***************************************************************************)
(* Claims about death                                                      *)
(***************************************************************************)

\* C14: once a character shown on the map is set to kill, and update keeps
\* being called and animations and timers keep completing, onKilled
\* eventually runs (killed flag set, body destroyed), whatever jump,
\* activateSkill, attack or dodge calls are made in the meantime.
C14_SetToKillLeadsToKilled ==
  (chr["c1"].isShownOnMap /\ chr["c1"].isSetToKill)
    ~> (chr["c1"].isKilled /\ chr["c1"].bodyDestroyed)

\* C15: after a character's body has been destroyed (by onKilled or by
\* removeFromMap), no operation uses that body or its fixtures: no timer
\* callback, no receiveDamage, no update, no second destruction.
C15_NoBodyUseAfterDestroy ==
  \A c \in chars : ~chr[c].danglingAccess

(***************************************************************************)
(* Claims about damage, attacks and delayed hits                           *)
(***************************************************************************)
\* the character that dealt the damage of the last damaging call
SourceOfCall ==
  IF call.op = "receiveDamage" THEN call.args[1] ELSE call.self

\* C16: when receiveDamage, called directly or by inflictDamage, takes a
\* character's health from above zero to zero, then as the operation returns
\* no ally of the damage source (other than the source itself) has the dying
\* character as its locked-on target or in its in-range-target set.
C16_DyingLeavesAlliesOfSource ==
  [][\A t \in chars :
       (/\ call'.op \in {"receiveDamage", "inflictDamage"}
        /\ DamagedByCall' = t
        /\ chr[t].health > 0 /\ chr'[t].health = 0)
       => \A m \in getAllies(parties, chr', SourceOfCall') \ {SourceOfCall'} :
            /\ chr'[m].lockedOnTarget # t
            /\ t \notin chr'[m].inRangeTargets]_vars

\* C17: receiveDamage(source, d) changes nothing (the receiver's health,
\* taking-damage and set-to-kill flags, every in-range-target set and lock-on)
\* and schedules no callback when the source is set to kill or killed, or the
\* receiver is invincible; so a delayed hit of a dying or dead attacker
\* changes nobody's health.
C17_ReceiveDamageNoOp ==
  [][/\ (/\ call'.op = "receiveDamage"
         /\ \/ chr[call'.args[1]].isSetToKill
            \/ chr[call'.args[1]].isKilled
            \/ chr[call'.self].isInvincible)
        => UNCHANGED <<chr, inv, pending>>
     /\ (/\ call'.op = "callback" /\ call'.args[1] = "hit"
         /\ chr[call'.self].isSetToKill \/ chr[call'.self].isKilled)
        => \A c \in chars :
             /\ chr'[c].health = chr[c].health
             /\ chr'[c].isTakingDamage = chr[c].isTakingDamage
             /\ chr'[c].isSetToKill = chr[c].isSetToKill]_vars

\* a delayed hit of c1 has fired on its target c2 (c2 is locked on c1 by it)
\* after c1 was set to kill: c2, not invincible, keeps its full health
C17_Witness ==
  /\ call.op = "callback" /\ call.self = "c1" /\ call.args[1] = "hit"
  /\ chr["c1"].isSetToKill
  /\ chr["c1"].lockedOnTarget = "c2" /\ chr["c2"].lockedOnTarget = "c1"
  /\ ~chr["c2"].isInvincible /\ ~chr["c2"].isTakingDamage
  /\ chr["c2"].health = HitHealth

\* C18: an accepted attack sets the attacking flag; the flag and any
\* overriding attack state are cleared when the attack's single scheduled
\* clearance fires; an overriding attack state is present only while the flag
\* is set; at most one clearance is pending per character (exactly one while
\* the flag is set, none otherwise).
C18_AttackFlagAndClearance ==
  /\ \A c \in chars :
       /\ chr[c].overridingAttackState # NULL => chr[c].isAttacking
       /\ PendingCount(pending, "attack", c) = IF chr[c].isAttacking THEN 1 ELSE 0
  /\ (call.op = "attack" /\ call.ret = TRUE)
       => /\ chr[call.self].isAttacking
          /\ call.args[1] # "ATTACKING"
               => chr[call.self].overridingAttackState = call.args[1]
  /\ (call.op = "callback" /\ call.args[1] = "attack")
       => /\ ~chr[call.self].isAttacking
          /\ chr[call.self].overridingAttackState = NULL

\* the clearance of an attack with an overriding state has fired after update
\* dispatched the overriding state's animation
C18_Witness ==
  /\ call.op = "callback" /\ call.args[1] = "attack"
  /\ chr[call.self].currentState = "ATTACKING_UPWARD"
  /\ ~chr[call.self].isAttacking
  /\ chr[call.self].overridingAttackState = NULL
  /\ PendingCount(pending, "attack", call.self) = 0

\* how many more callbacks Callback("hit", self, t) are pending after the step
NewHitsDue(self, t) ==
  CopiesIn(Callback("hit", self, t), pending')
    - CopiesIn(Callback("hit", self, t), pending)

\* the due times a delayed hit can have
HitDueTimes == 0..(NpcDamageDelayTicks + MaxHits * MaxHitInterval)

\* C19: an accepted attack(state, numHits, hitInterval) schedules exactly
\* numHits hit callbacks when the attacker's in-range-target set is non-empty
\* and the chosen target is not invincible, and none otherwise; the i-th is
\* due at delay + i * hitInterval, delay being 0 for the player and
\* NpcDamageDelayTicks for any other attacker.
C19_HitsScheduledByAttack ==
  [][(call'.op = "attack" /\ call'.ret = TRUE)
     => LET self     == call'.self
            numHits  == call'.args[2]
            interval == call'.args[3]
            delay    == IF chr[self].isPlayer THEN 0 ELSE NpcDamageDelayTicks
            hits     == /\ chr[self].inRangeTargets # {}
                        /\ chr'[self].lockedOnTarget \in chr[self].inRangeTargets
                        /\ ~chr[chr'[self].lockedOnTarget].isInvincible
        IN /\ PendingCount(pending', "hit", self)
                = PendingCount(pending, "hit", self) + (IF hits THEN numHits ELSE 0)
           /\ \A t \in HitDueTimes :
                NewHitsDue(self, t)
                  = IF hits
                    THEN Cardinality({i \in 1..numHits : delay + i * interval = t})
                    ELSE 0]_vars

\* the NPC c2 has attacked with the hits delay + 1 and delay + 2 ticks away
C19_Witness ==
  /\ call.op = "attack" /\ call.self = "c2" /\ call.ret = TRUE
  /\ call.args = <<"ATTACKING", 2, 1>>
  /\ ~chr["c2"].isPlayer
  /\ CopiesIn(Callback("hit", "c2", NpcDamageDelayTicks + 1), pending) = 1
  /\ CopiesIn(Callback("hit", "c2", NpcDamageDelayTicks + 2), pending) = 1
  /\ PendingCount(pending, "hit", "c2") = 2

\* C20: a delayed hit scheduled by attack() is applied to the character that
\* is the attacker's locked-on target when the callback fires, whatever target
\* attack() chose: only that character's health can change, a live attacker
\* takes its damage output off a non-invincible target's health (floored at 0),
\* and when the lock-on has been cleared nobody is damaged.
C20_HitLandsOnCurrentLockOn ==
  [][(call'.op = "callback" /\ call'.args[1] = "hit")
     => LET self   == call'.self
            target == chr[self].lockedOnTarget
            damage == getDamageOutput(Now, self, 0)
        IN /\ \A c \in chars \ {target} :
                /\ chr'[c].health = chr[c].health
                /\ chr'[c].isTakingDamage = chr[c].isTakingDamage
           /\ (/\ target # NULL
               /\ ~chr[self].isSetToKill /\ ~chr[self].isKilled
               /\ ~chr[target].isInvincible)
              => /\ chr'[target].health
                      = IF chr[target].health > damage
                        THEN chr[target].health - damage ELSE 0
                 /\ chr'[target].isTakingDamage]_vars

\* c1 attacked with c2, its only in-range target, as the chosen target; before
\* the hit fired c3 damaged c1, which locked c1 on c3: the hit has taken c1's
\* damage output off c3's health and left c2 untouched
C20_Witness ==
  /\ call.op = "callback" /\ call.self = "c1" /\ call.args[1] = "hit"
  /\ chr["c1"].inRangeTargets = {"c2"}
  /\ chr["c3"].health = FullHealth - BaseMeleeDamage /\ chr["c3"].isTakingDamage
  /\ chr["c2"].health = HitHealth /\ ~chr["c2"].isTakingDamage
  /\ ~chr["c2"].isInvincible

(***************************************************************************)
(* Claims about skills and the state machine                               *)
(***************************************************************************)
\* C21: while the using-skill flag is set, update changes neither the current
\* nor the previous state and dispatches no animation; the callback at the end
\* of the skill leaves FORCE_UPDATE as current state, and the next update of
\* the shown, not killed character, no skill being in use, dispatches the
\* animation of the state it determines, whatever the state before the skill.
C21_ForceUpdateAfterSkill ==
  [][/\ (call'.op = "update" /\ chr[call'.self].isUsingSkill)
        => /\ chr'[call'.self].currentState = chr[call'.self].currentState
           /\ chr'[call'.self].previousState = chr[call'.self].previousState
           /\ chr'[call'.self].action = chr[call'.self].action
           /\ call'.ret = NULL
     /\ (call'.op = "callback" /\ call'.args[1] = "skill")
        => /\ chr'[call'.self].currentState = "FORCE_UPDATE"
           /\ ~chr'[call'.self].isUsingSkill
     /\ (/\ call'.op = "update"
         /\ chr[call'.self].currentState = "FORCE_UPDATE"
         /\ chr[call'.self].isShownOnMap /\ ~chr[call'.self].isKilled
         /\ ~chr[call'.self].isUsingSkill)
        => /\ call'.ret # NULL
           /\ call'.ret = chr'[call'.self].currentState
           /\ chr'[call'.self].action = call'.ret
           /\ chr'[call'.self].currentState # "FORCE_UPDATE"]_vars

\* c1, idle and unharmed since its construction, has used a skill that ran
\* frames of its own; the update after the skill has dispatched IDLE again
C21_Witness ==
  /\ call.op = "update" /\ call.self = "c1" /\ call.ret = "IDLE"
  /\ chr["c1"].skillActivations = 1
  /\ chr["c1"].previousState = "FORCE_UPDATE"
  /\ chr["c1"].currentState = "IDLE" /\ chr["c1"].action = "IDLE"
  /\ chr["c1"].health = FullHealth

\* C22: once a character's current state is KILLED it is KILLED in every
\* later state, also when a skill activated on the character finishes later.
C22_KilledStateIsTerminal ==
  [][\A c \in chars :
       chr[c].currentState = "KILLED" => chr'[c].currentState = "KILLED"]_vars

(***************************************************************************)
(* Claims about movement                                                   *)
(***************************************************************************)
\* C23: in no reachable state is a character dodging (either dodge flag set)
\* and double-jumping at once.
C23_NeverDodgingAndDoubleJumping ==
  \A c \in chars : ~(isDodging(chr[c]) /\ chr[c].isDoubleJumping)

\* C24: from an accepted dodge until its recovery callback fires the dodge
\* flag is set and the character is invincible, one recovery being pending;
\* when the recovery has fired the damping is what it was before the dodge
\* (the damping of the body outside dodges, 0 since its construction),
\* invincibility is off and the flag is cleared, for any sequence of dodge
\* requests.
C24_DodgeWindow ==
  /\ \A c \in chars :
       LET recoveries == PendingCount(pending, "DODGING_BACKWARD", c)
                           + PendingCount(pending, "DODGING_FORWARD", c)
       IN IF isDodging(chr[c])
          THEN /\ chr[c].isInvincible
               /\ chr[c].linearDamping = DodgeDamping
               /\ recoveries = 1
          ELSE /\ ~chr[c].isInvincible
               /\ chr[c].linearDamping = 0
               /\ recoveries = 0
  /\ (call.op \in {"dodgeForward", "dodgeBackward"} /\ ~chr[call.self].isDoubleJumping)
       => isDodging(chr[call.self])
  /\ (call.op = "callback" /\ call.args[1] \in {"DODGING_BACKWARD", "DODGING_FORWARD"})
       => ~isDodging(chr[call.self])

\* the recovery of a backward dodge has fired, the current state still being
\* that of an earlier forward dodge: the damping is 0 again
C24_Witness ==
  /\ call.op = "callback" /\ call.args[1] = "DODGING_BACKWARD"
  /\ chr[call.self].currentState = "DODGING_FORWARD"
  /\ ~isDodging(chr[call.self]) /\ ~chr[call.self].isInvincible
  /\ chr[call.self].linearDamping = 0

\* C25: while the jumping flag is set, crouch() and getUpFromCrouching() are
\* refused: the crouch flag keeps its value and no fixture is redefined.
C25_NoCrouchChangeWhileJumping ==
  [][(call'.op \in {"crouch", "getUpFromCrouching"} /\ chr[call'.self].isJumping)
     => /\ chr'[call'.self].isCrouching = chr[call'.self].isCrouching
        /\ chr'[call'.self].fixtures = chr[call'.self].fixtures
        /\ chr'[call'.self].bodyFixtureList = chr[call'.self].bodyFixtureList]_vars

\* C26: moveLeft() and moveRight() called while the character is crouching or
\* getting up from a fall change nothing: no impulse, no start-running flag,
\* no callback, and no other state of the character, facing direction
\* included.
C26_MoveRefusedIsNoOp ==
  [][(/\ call'.op \in {"moveLeft", "moveRight"}
      /\ chr[call'.self].isCrouching \/ chr[call'.self].isGettingUpFromFalling)
     => UNCHANGED <<chr, inv, pending>>]_vars

\* the fixture type a redefine operation names
RedefinedType(op) ==
  CASE op = "redefineBodyFixture" -> "BODY"
    [] op = "redefineFeetFixture" -> "FEET"
    [] op = "redefineWeaponFixture" -> "WEAPON"

\* the body of c carries exactly one fixture of each type, the one the handle
\* of that type refers to
OneFixturePerType(C, c) ==
  \A k \in FixtureTypes :
    {f \in C[c].bodyFixtureList : f.kind = k} = {[kind |-> k, id |-> C[c].fixtures[k]]}

\* C27: after defineBody and any sequence of redefineBodyFixture,
\* redefineFeetFixture and redefineWeaponFixture calls the body carries exactly
\* one fixture of each type and the handle of that type refers to it; each
\* call replaces the fixture it names by a new one and leaves the handles of
\* the other two types untouched.
C27_OneFixturePerTypeAfterRedefine ==
  [][call'.op \in {"redefineBodyFixture", "redefineFeetFixture",
                   "redefineWeaponFixture"}
     => LET c == call'.self
            named == RedefinedType(call'.op)
        IN /\ OneFixturePerType(chr', c)
           /\ chr'[c].fixtures[named] # chr[c].fixtures[named]
           /\ \A k \in FixtureTypes \ {named} :
                chr'[c].fixtures[k] = chr[c].fixtures[k]]_vars

(***************************************************************************)
(* Claims about map loading, damage and skills                             *)
(***************************************************************************)
\* C28: every loadGameMap call is eventually followed by doLoadGameMap with
\* its continuation, after which the worker has ended and the NPCs are
\* allowed to act; the worker's busy-wait does not spin forever.
C28_LoadGameMapCompletes ==
  (gmm.worker # "none")
    ~> (/\ gmm.worker = "none" /\ gmm.shadeAction = NULL
        /\ gmm.gameMap = gmm.loading
        /\ gmm.areNpcsAllowedToAct)

\* C29: after a receiveDamage call that applies damage the taking-damage flag
\* stays set for the whole 0.25 s that follow the call: as long as the
\* clearance scheduled by a hit is not due yet, the flag of the character that
\* was hit is set, whatever clearance of an earlier hit has fired.
C29_TakingDamageForFullWindow ==
  \A c \in chars :
    (\E cb \in PendingOf(pending, "takingDamage", c) : cb.left > 0)
      => chr[c].isTakingDamage

\* C30: activateSkill changes no state when the character's using-skill flag
\* is set or the skill cannot be activated; otherwise it sets the flag and
\* schedules one callback for the skill's duration.  The flag is cleared by
\* that callback and by nothing else, so a character whose flag is set has
\* exactly one skill callback pending and a character whose flag is clear has
\* none.
C30_ActivateSkillLockOut ==
  [][/\ (call'.op = "activateSkill"
         /\ (chr[call'.self].isUsingSkill \/ ~call'.args[1]))
        => UNCHANGED <<chr, inv, pending>>
     /\ (call'.op = "activateSkill"
         /\ ~chr[call'.self].isUsingSkill /\ call'.args[1])
        => /\ chr'[call'.self].isUsingSkill
           /\ pending' = pending
                (+) SetToBag({Callback("skill", call'.self, SkillTicks)})
     /\ \A c \in chars :
          /\ (chr[c].isUsingSkill /\ ~chr'[c].isUsingSkill)
             => call' = Call("callback", c, <<"skill">>, NULL)
          /\ call' = Call("callback", c, <<"skill">>, NULL)
             => chr[c].isUsingSkill /\ ~chr'[c].isUsingSkill
          /\ PendingCount(pending', "skill", c)
               = IF chr'[c].isUsingSkill THEN 1 ELSE 0]_vars

\* c1 has used one skill to its end and activated a second one; a further
\* activateSkill call, of a skill that can be activated, has just been refused
\* while the second skill's callback is on its way
C30_Witness ==
  /\ call.op = "activateSkill" /\ call.self = "c1"
  /\ call.args[1] /\ call.args[2]
  /\ chr["c1"].skillActivations = 2
  /\ chr["c1"].isUsingSkill
  /\ \E cb \in PendingOf(pending, "skill", "c1") : cb.left < SkillTicks

(***************************************************************************)
(* Claims about the skill book, the inventory and the portal locks         *)
(***************************************************************************)
\* the instances a character's skill registry holds
RegistrySkills(S) ==
  ({S.skillMapper[n] : n \in SkillNames} \ {NoSkill})
    \cup UNION {S.skillBook[t] : t \in SkillTypes}

\* C31: an accepted activateSkill adds exactly one instance to the active
\* set, a new instance of the activated skill that is none of the instances
\* of the registry and none that was active; skill book and name map are
\* unchanged.  Active instances stay in the set in every step except a
\* removeActiveSkill, which removes the instance it names and no other.
C31_ActivationSpawnsCopy ==
  [][\A c \in chars :
       LET S == chr[c].skills
           T == chr'[c].skills
       IN /\ (/\ call'.op = "activateSkill" /\ call'.self = c
              /\ ~chr[c].isUsingSkill /\ call'.args[1])
             => /\ \E k \in T.activeSkills \ S.activeSkills :
                     /\ T.activeSkills = S.activeSkills \cup {k}
                     /\ k.name = call'.args[3].name
                     /\ k \notin RegistrySkills(T)
                /\ T.skillMapper = S.skillMapper
                /\ T.skillBook = S.skillBook
          /\ IF call'.op = "removeActiveSkill" /\ call'.self = c
             THEN T.activeSkills = S.activeSkills \ {call'.args[1]}
             ELSE S.activeSkills \subseteq T.activeSkills]_vars

\* c1 has activated slash twice: the second copy has just been added and the
\* copy of the first activation is still active
C31_Witness ==
  /\ call.op = "activateSkill" /\ call.self = "c1" /\ call.args[1]
  /\ chr["c1"].isUsingSkill
  /\ \E cb \in PendingOf(pending, "skill", "c1") : cb.left = SkillTicks
  /\ Cardinality({k \in chr["c1"].skills.activeSkills : k.name = "slash"}) = 2

\* the instances a character's owning item map holds
MappedItems(I) == {I.itemMapper[j] : j \in Items} \ {NoItem}

\* C32: the item an occupied equipment slot references is in the owning item
\* map, also with free quantity 0; every instance in the map that is not
\* equipped has quantity >= 1 and is indexed in the inventory; and an instance
\* leaves the owning map only in a step that brings its quantity to 0 while
\* no equipment slot references it.
C32_EquippedSurvivesInItemMap ==
  [][\A c \in chars :
       LET I == inv[c]
           J == inv'[c]
       IN ~J.aborted =>
            /\ \A t \in EquipTypes :
                 J.equipmentSlots[t] # NoItem =>
                   J.itemMapper[J.equipmentSlots[t].json] = J.equipmentSlots[t]
            /\ \A o \in MappedItems(J) :
                 ~Equipped(J, o) =>
                   J.amount[o] >= 1 /\ o \in J.inventory[ItemType(o)]
            /\ \A o \in MappedItems(I) \ MappedItems(J) :
                 /\ I.amount[o] >= 1 /\ J.amount[o] = 0
                 /\ ~Equipped(J, o)]_vars

\* the last unit of the equipped sword has just been removed from the
\* inventory: the sword is in the slot and in the owning map with quantity 0;
\* the dagger that was owned is gone from the map
C32_Witness ==
  LET I == inv["c1"]
  IN /\ call.op = "removeItem" /\ ~I.aborted
     /\ \E o \in MappedItems(I) :
          /\ o.json = "sword" /\ Equipped(I, o)
          /\ I.amount[o] = 0 /\ o \notin I.inventory[ItemType(o)]
          /\ call.args[1].json = "sword"
     /\ I.itemMapper["dagger"] = NoItem /\ I.net["dagger"] = 0
     /\ I.itemMapper["potion"] # NoItem

\* no item of a character whose run has not failed an assert has a negative
\* quantity
NoNegativeQuantity(I) == ~I.aborted => \A o \in ItemObjs : I.amount[o] >= 0

\* C33 as stated: every removeItem call with an amount greater than the owned
\* quantity of the item (0 for an item that is not owned) ends in the
\* assertion failure, and no state without a failed assert holds an item with
\* a negative quantity.
C33_OverRemovalAsserts ==
  [][\A c \in chars :
       /\ (/\ call'.op = "removeItem" /\ call'.self = c
           /\ call'.args[2] > getItemAmount(inv[c], call'.args[1].json))
          => inv'[c].aborted
       /\ NoNegativeQuantity(inv'[c])]_vars

\* C33, amended: a removeItem call for an item that is in the owning map, with
\* an amount greater than its quantity, ends in the assertion failure; a
\* removeItem call for an item that is not in the map changes nothing; and no
\* state without a failed assert holds an item with a negative quantity.
C33_OwnedOverRemovalAsserts ==
  [][\A c \in chars :
       /\ (call'.op = "removeItem" /\ call'.self = c)
          => LET existing == getExistingItemObj(inv[c], call'.args[1])
             IN IF existing = NoItem THEN inv'[c] = inv[c]
                ELSE (call'.args[2] > inv[c].amount[existing]) <=> inv'[c].aborted
       /\ NoNegativeQuantity(inv'[c])]_vars

\* removeItem has just been called for the owned potions with an amount
\* greater than their quantity, and the assert has failed
C33_Witness ==
  /\ call.op = "removeItem" /\ call.self = "c1"
  /\ call.args[1] = inv["c1"].itemMapper["potion"]
  /\ inv["c1"].amount[call.args[1]] >= 1
  /\ call.args[2] > inv["c1"].amount[call.args[1]]
  /\ inv["c1"].aborted

\* C34: useItem applies the consumable's effects only together with the
\* removal of one unit of it: after a useItem call either the owned quantity
\* of the consumable is one less, or the quantity and the character are as
\* they were before the call (nothing is applied for a consumable that is not
\* owned).
C34_UseItemConsumesOneUnit ==
  [][call'.op = "useItem"
     => LET c == call'.self
            json == call'.args[1].json
        IN \/ getItemAmount(inv'[c], json) = getItemAmount(inv[c], json) - 1
           \/ /\ getItemAmount(inv'[c], json) = getItemAmount(inv[c], json)
              /\ chr'[c] = chr[c]]_vars

\* how many entries the store holds for a portal of a tiled map
PortalEntries(A, tmxMapFileName, targetPortalId) ==
  IF tmxMapFileName \notin DOMAIN A THEN 0
  ELSE Cardinality({i \in DOMAIN A[tmxMapFileName] :
                      A[tmxMapFileName][i].first = targetPortalId})

\* C35: after setPortalLocked(map, id, b), isPortalLocked(map, id) is b and
\* hasSavedPortalLockUnlockState(map, id) is true; what the two queries
\* return for the other ids of that map is as before the call and the vectors
\* of the other maps are as before; the map's vector holds at most one entry
\* per id.  The two queries return what the store holds and leave it as it
\* is, and isPortalLocked returns false for a pair without a saved state:
\* these are the pairs never set.
C35_PortalLockRoundTrip ==
  [][LET A == gmm.allPortalStates
         B == gmm'.allPortalStates
         map == call'.args[1]
     IN IF call'.op = "setPortalLocked"
        THEN /\ \A m \in PortalMaps \ {map} :
                  /\ m \in DOMAIN B <=> m \in DOMAIN A
                  /\ m \in DOMAIN A => B[m] = A[m]
             /\ \A id \in PortalIds :
                  /\ PortalEntries(B, map, id) <= 1
                  /\ IF id = call'.args[2]
                     THEN /\ isPortalLocked(B, map, id) = call'.args[3]
                          /\ hasSavedPortalLockUnlockState(B, map, id)
                     ELSE /\ isPortalLocked(B, map, id) = isPortalLocked(A, map, id)
                          /\ hasSavedPortalLockUnlockState(B, map, id)
                               = hasSavedPortalLockUnlockState(A, map, id)
        ELSE /\ B = A
             /\ call'.op = "isPortalLocked"
                  => /\ call'.ret = isPortalLocked(A, map, call'.args[2])
                     /\ ~hasSavedPortalLockUnlockState(A, map, call'.args[2])
                          => ~call'.ret
             /\ call'.op = "hasSavedPortalLockUnlockState"
                  => call'.ret = hasSavedPortalLockUnlockState(A, map,
                                                               call'.args[2])]_vars

\* portal 1 of map0 was locked, portal 2 of map0 and a portal of map1 were
\* set, and portal 1 of map0 has just been unlocked: its entry is still the
\* first of two in the vector of map0 and holds the new state
C35_Witness ==
  LET A == gmm.allPortalStates
  IN /\ call = Call("setPortalLocked", NULL, <<"map0", 1, FALSE>>, NULL)
     /\ DOMAIN A = PortalMaps
     /\ Len(A["map0"]) = 2
     /\ A["map0"][1] = [first |-> 1, second |-> FALSE]
     /\ A["map0"][2] = [first |-> 2, second |-> TRUE]
     /\ isPortalLocked(A, "map1", 2)

====
